---- MODULE Spec2Model ----
(***************************************************************************)
(* Model of the AirCom mesh communication core:                            *)
(*   - HaLowMeshManager's offline message cache and its flush on reconnect *)
(*     (components/HaLowManager/HaLowMeshManager.cpp) over the MM-IoT-SDK  *)
(*     transport (components/HaLowManager/src/mm_iot_sdk.cpp), driven by   *)
(*     SDK connection events, the UI task's BACK-button toggle and sends   *)
(*     from other tasks;                                                   *)
(*   - the inter-task queues of main/shared_data.cpp and their users;      *)
(*   - retry_with_backoff, calculate_backoff_delay, the error statistics   *)
(*     and error_recover of main/error_handling.c;                         *)
(*   - the network task's delivery of outgoing messages through            *)
(*     send_tcp_message (main/network_task.cpp, main/network_utils.cpp)    *)
(*     and the handling of inbound packets.                                *)
(***************************************************************************)
EXTENDS Integers, Sequences, FiniteSets, TLC

\* ------------------------------------------------------------------------
\* Bounds of the model
\* ------------------------------------------------------------------------
\* number of application sends (each carries a fresh payload)
MaxMsgs == 2
\* longest cache the model follows (re-caching during a flush can grow it)
MaxCache == 2
\* longest transport log the model follows
MaxLog == 2
\* capacity given to every queue in the model (the program creates them with
\* 30, 20, 15 and 25 slots)
QueueCap == 2
\* number of items the producers offer to the queues
MaxItems == QueueCap + 1
\* longest time a blocked producer is followed, in ms
MaxBlockedMs == 300
\* largest max_attempts of a retry configuration
MaxAttempts == 3
\* last attempt whose backoff delay is computed
MaxBackoffAttempt == 7
\* largest max_retries a caller passes to send_tcp_message
MaxRetries == 2
\* number of inbound packets that are discarded
MaxPackets == 2
\* number of counted error_recover calls
MaxRecoveries == 2
\* number of error_report calls between two resets
MaxReports == 11
\* the clock of the error statistics runs up to this time, in ms
MaxClock == 10000
\* the amount of time seen to pass in one step of that clock, in ms
ClockStep == 5000
\* longest of the short plaintexts that are encrypted
MaxPlainLen == 2
\* health cycles without a response after which a contact counts as stale
StaleCycles == 1
\* length of the one long plaintext
LongTextLen == 17

\* ------------------------------------------------------------------------
\* Mesh manager: values
\* ------------------------------------------------------------------------
\* UDP ports used by callers (VOICE_PORT / text port stand-ins)
Ports == {5000, 6000}
\* unicast destinations
Peers == {"B"}
\* the contexts that run sendCachedMessages: the UI task and the SDK callback
Flushers == {"ui", "sdk"}
\* what a read through an invalidated vector iterator may yield
Garbage == [id |-> 0, isMulticast |-> FALSE, destIp |-> "?", port |-> 0]

\* struct CachedMessage {data, port, destIp, isMulticast}; the payload bytes
\* are represented by the id of the send that produced them
CachedMessage(id, mc, dest, port) ==
    [id |-> id, isMulticast |-> mc, destIp |-> dest, port |-> port]

VARIABLES
    isInitialized,   \* HaLowMeshManager::isInitialized
    isConnected,     \* HaLowMeshManager::isConnected
    m_connected,     \* MMIoTSDK::m_connected
    messageCache,    \* HaLowMeshManager::messageCache
    transportLog,    \* calls made to MMIoTSDK::sendData / broadcastData
    lastCall,        \* the last sendUdpUnicast / sendUdpMulticast call and its return
    nextId,          \* payload id of the next application send
    pc,              \* position of each flushing context
    currentStatus,   \* uiTask local: status read before the toggle
    cbArg,           \* argument of the SDK connection callback in progress
    it,              \* range-for iterator of each flush (index)
    endIt,           \* range-for end iterator of each flush (index)
    dangling,        \* the flush's iterators were invalidated
    flushStart,      \* cache contents when the flush began: the storage its
                     \* iterators point into
    logStart         \* length of transportLog when the flush began

meshVars == <<isInitialized, isConnected, m_connected, messageCache,
              transportLog, lastCall, nextId, pc, currentStatus, cbArg,
              it, endIt, dangling, flushStart, logStart>>

VARIABLES
    queue,           \* contents of each FreeRTOS queue
    enq,             \* items whose send succeeded, per queue, in order
    deq,             \* items received, per queue, in order
    nextItem,        \* the next item a producer offers
    qpc,             \* position of each producer
    cur              \* the send call each producer is in

queueVars == <<queue, enq, deq, nextItem, qpc, cur>>

VARIABLES
    r_pc,            \* position inside retry_with_backoff
    func,            \* the func argument: "fn" or "NULL"
    config,          \* the config argument: "cfg" or "NULL"
    max_attempts,    \* config->max_attempts
    attempt,         \* local attempt
    success,         \* local success
    results,         \* what the invocations of func returned, in order
    r_ret,           \* the value retry_with_backoff returned
    error_context,   \* the error_context argument: "ctx" or "NULL"
    g_initialized,   \* error_handling.c: g_initialized
    total_errors,    \* g_stats.total_errors
    last_error_code  \* g_stats.last_error_code

\* error_code_t
ERROR_TIMEOUT == 1004

retryVars == <<r_pc, func, config, max_attempts, attempt, success, results,
               r_ret, error_context, g_initialized, total_errors,
               last_error_code>>

VARIABLES
    b_policy,        \* the retry policy whose delays are computed
    jitter_enabled,  \* the jitter_enabled argument
    b_attempt,       \* the attempt whose delay was computed last (-1: none)
    b_delay          \* the value calculate_backoff_delay returned for it

backoffVars == <<b_policy, jitter_enabled, b_attempt, b_delay>>

VARIABLES
    e_now,                  \* esp_timer_get_time() / 1000
    last_error_timestamp,   \* g_stats.last_error_timestamp
    errors_by_category,     \* g_stats.errors_by_category
    g_stats_mutex,          \* "NULL", "free" or the task that holds it
    e_pc,                   \* position of each task inside the error API
    e_arg,                  \* category and code of each task's call
    e_ret,                  \* the ErrorContext error_report returned last
    reportCalls,            \* error_report calls returned since the last reset
    lastReportAt,           \* time of the last error_report call (-1: none)
    e_query,                \* last result of error_is_in_error_state
    recovery_attempts,      \* g_stats.recovery_attempts
    successful_recoveries,  \* g_stats.successful_recoveries
    failed_recoveries,      \* g_stats.failed_recoveries
    rec_last                \* the last error_recover call and its result

errVars == <<e_now, last_error_timestamp, errors_by_category, g_stats_mutex,
             e_pc, e_arg, e_ret, reportCalls, lastReportAt, e_query,
             recovery_attempts, successful_recoveries, failed_recoveries,
             rec_last>>

VARIABLES
    n_pc,                \* networkTask: "loop", or "tcp" inside send_tcp_message
    out_msg,             \* networkTask local: the message dequeued last
    tcp,                 \* arguments, locals and result ("true", "false")
                         \* of send_tcp_message
    g_network_status,    \* network_utils.cpp: g_network_status
    n_last,              \* the outgoing message handled last and its fate
    g_contact_list,      \* shared_data.cpp: g_contact_list
    g_peer_link_stats,   \* shared_data.cpp: g_peer_link_stats
    sec_isInitialized,   \* SecurityManager::isInitialized
    groupKey,            \* SecurityManager::groupKey
    in_last,             \* the inbound packet handled last and its outcome
    in_discarded         \* inbound packets discarded so far

netVars == <<n_pc, out_msg, tcp, g_network_status, n_last, g_contact_list,
             g_peer_link_stats, sec_isInitialized, groupKey, in_last,
             in_discarded>>

VARIABLES
    c_pc,              \* the task using crypto.cpp: "run" or "crashed"
    key_initialized,   \* crypto.cpp: key_initialized
    session_key,       \* crypto.cpp: session_key
    plain,             \* the plaintext encrypt_message was called with last
    wire,              \* the payload encrypt_message returned for it
    rx,                \* the payload decrypt_message was called with last
    rx_pos,            \* the byte of wire that was changed on the way (0: none)
    dec                \* whether decrypt_message returned, and the string

cryptoVars == <<c_pc, key_initialized, session_key, plain, wire, rx, rx_pos,
                dec>>

VARIABLES
    cd_pkt,            \* the packet given to air_com_packet__pack last
    cd_bytes,          \* the buffer it filled, as the receiver gets it
    cd_out             \* what air_com_packet__unpack returned for the buffer

codecVars == <<cd_pkt, cd_bytes, cd_out>>

VARIABLES
    ui_updates,          \* contents of ui_update_queue, with the sending task
    gps_lock_status,     \* ui_task.cpp: gps_lock_status
    team_contact_count,  \* ui_task.cpp: team_contact_count
    last_valid_state     \* gps_task: last_valid_state

uiVars == <<ui_updates, gps_lock_status, team_contact_count,
            last_valid_state>>

VARIABLES
    sec_last             \* the key SecurityManager::setGroupKey was given last

keyVars == <<sec_last>>

VARIABLES
    g_contact_list_mutex,  \* shared_data.cpp: "free" or the task holding it
    h_pc,                \* network_health_task: "delay", "take", "loop",
                         \* "send" (inside send_outgoing_message), "prune"
    h_i,                 \* the position of its loop in g_contact_list
    h_log,               \* the requests of the cycle and what became of them
    contact_age,         \* cycles the contacts in the list have been through
                         \* with no HealthCheckResponse
    n_step,              \* networkTask: the step of its loop that comes next
    n_nodes,             \* networkTask local: nodes
    n_taken,             \* whether it got the mutex in this iteration
    u_pc,                \* uiTask: "idle", or what it holds the mutex for
    u_last               \* the last key press that needed the mutex

healthVars == <<g_contact_list_mutex, h_pc, h_i, h_log, contact_age, n_step,
                n_nodes, n_taken, u_pc, u_last>>

VARIABLES
    created,             \* the SafeCallback objects that exist
    m_valid,             \* CallbackHandle::m_valid of each
    m_callbacks,         \* CallbackManager::m_callbacks
    ownerAlive,          \* the CallbackOwner has not been destroyed
    x_pc,                \* each execute(): "idle", or "invoke" between its
                         \* isValid() test and the call of m_callback
    x_ret,               \* what each execute() returned last
    invocations          \* the calls of wrapped functions, with m_valid and
                         \* the owner's existence at the time of the call

cbVars == <<created, m_valid, m_callbacks, ownerAlive, x_pc, x_ret,
            invocations>>

VARIABLES
    ip_arg,              \* the string validate_ip_address was given last
    ip_ret               \* what it returned ("none": not called)

ipVars == <<ip_arg, ip_ret>>

\* the state of the encryption module, the packet codec, the UI status, the
\* callers of the SecurityManager and the users of the contact-list mutex
taskVars == <<cryptoVars, codecVars, uiVars, keyVars,
             healthVars, cbVars, ipVars>>

\* what the actions of each of these leave alone
cryptoRest == <<codecVars, uiVars, keyVars, healthVars,
    cbVars, ipVars>>
codecRest == <<cryptoVars, uiVars, keyVars, healthVars,
    cbVars, ipVars>>
uiRest == <<cryptoVars, codecVars, keyVars, healthVars,
    cbVars, ipVars>>
keyRest == <<cryptoVars, codecVars, uiVars, healthVars,
    cbVars, ipVars>>
healthRest == <<cryptoVars, codecVars, uiVars, keyVars,
    cbVars, ipVars>>
cbRest == <<cryptoVars, codecVars, uiVars, keyVars,
    healthVars, ipVars>>
ipRest == <<cryptoVars, codecVars, uiVars, keyVars,
    healthVars, cbVars>>

\* the state added by the error statistics, the backoff computation, the
\* network tasks and the tasks above
extVars == <<backoffVars, errVars, netVars, taskVars>>

vars == <<meshVars, queueVars, retryVars, extVars>>

\* ------------------------------------------------------------------------
\* MM-IoT-SDK transport
\* ------------------------------------------------------------------------
\* MMIoTSDK::sendData: rejected unless initialized and connected
sendData(peer, data) ==
    [op |-> "sendData", peer |-> peer, data |-> data,
     ok |-> (isInitialized /\ m_connected)]

\* MMIoTSDK::broadcastData: rejected unless initialized and connected
broadcastData(data) ==
    [op |-> "broadcastData", peer |-> "", data |-> data,
     ok |-> (isInitialized /\ m_connected)]

\* ------------------------------------------------------------------------
\* HaLowMeshManager
\* ------------------------------------------------------------------------
MeshInit ==
    /\ isInitialized = FALSE
    /\ isConnected = FALSE
    /\ m_connected = FALSE
    /\ messageCache = <<>>
    /\ transportLog = <<>>
    /\ lastCall = [seq |-> 0, msg |-> Garbage, ret |-> FALSE]
    /\ nextId = 1
    /\ pc = [p \in Flushers |-> "idle"]
    /\ currentStatus = FALSE
    /\ cbArg = FALSE
    /\ it = [p \in Flushers |-> 1]
    /\ endIt = [p \in Flushers |-> 0]
    /\ dangling = [p \in Flushers |-> FALSE]
    /\ flushStart = [p \in Flushers |-> <<>>]
    /\ logStart = [p \in Flushers |-> 0]

\* HaLowMeshManager::begin: MMIoTSDK::initialize succeeds for the fixed
\* non-empty ssid/password, leaving both connection flags false
begin ==
    /\ UNCHANGED <<queueVars, retryVars, extVars>>
    /\ ~isInitialized
    /\ \A p \in Flushers : pc[p] = "idle"
    /\ isInitialized' = TRUE
    /\ isConnected' = FALSE
    /\ m_connected' = FALSE
    /\ UNCHANGED <<messageCache, transportLog, lastCall, nextId, pc,
                   currentStatus, cbArg, it, endIt, dangling,
                   flushStart, logStart>>

\* push_back replaced by an insertion at the front
PushBack_AtFront(cache, msg) == <<msg>> \o cache

\* the cache after push_back(msg)
PushBack(cache, msg) == Append(cache, msg)

\* the transport call sendUdpUnicast / sendUdpMulticast make when connected
TransportCall(msg) ==
    IF msg.isMulticast THEN broadcastData(msg.id)
                       ELSE sendData(msg.destIp, msg.id)

\* the value sendUdpUnicast / sendUdpMulticast return
SendReturn(msg) ==
    IF ~isInitialized THEN FALSE
    ELSE IF ~isConnected THEN TRUE
    ELSE TransportCall(msg).ok

\* a send that also caches the message when the transport rejects it
SendCache_RequeueRejected(msg) ==
    IF isInitialized /\ (~isConnected \/ ~TransportCall(msg).ok)
    THEN PushBack(messageCache, msg)
    ELSE messageCache

\* the cache after sendUdpUnicast / sendUdpMulticast
SendCache(msg) ==
    IF isInitialized /\ ~isConnected THEN PushBack(messageCache, msg)
                                     ELSE messageCache

\* the transport log after sendUdpUnicast / sendUdpMulticast
SendLog(msg) ==
    IF isInitialized /\ isConnected THEN Append(transportLog, TransportCall(msg))
                                    ELSE transportLog

\* push_back may reallocate the vector: every flush that is iterating over it
\* either keeps valid iterators (no reallocation) or is left with iterators
\* into the freed storage
Invalidated(d, pushed) ==
    /\ d \in [Flushers -> BOOLEAN]
    /\ \A p \in Flushers :
         /\ dangling[p] => d[p]
         /\ (d[p] /\ ~dangling[p]) => (pushed /\ pc[p] = "flush_loop")

\* body shared by sendUdpUnicast and sendUdpMulticast
SendUdp(msg) ==
    /\ Len(SendCache(msg)) <= MaxCache
    /\ Len(SendLog(msg)) <= MaxLog
    /\ messageCache' = SendCache(msg)
    /\ transportLog' = SendLog(msg)
    /\ lastCall' = [seq |-> 1 - lastCall.seq, msg |-> msg, ret |-> SendReturn(msg)]
    /\ \E d \in [Flushers -> BOOLEAN] :
         /\ Invalidated(d, messageCache' # messageCache)
         /\ dangling' = d

\* HaLowMeshManager::sendUdpUnicast called by an application task
sendUdpUnicast ==
    /\ UNCHANGED <<queueVars, retryVars, extVars>>
    /\ nextId <= MaxMsgs
    /\ \E dest \in Peers, port \in Ports :
         SendUdp(CachedMessage(nextId, FALSE, dest, port))
    /\ nextId' = nextId + 1
    /\ UNCHANGED <<isInitialized, isConnected, m_connected, pc, currentStatus,
                   cbArg, it, endIt, flushStart, logStart>>

\* HaLowMeshManager::sendUdpMulticast called by an application task
sendUdpMulticast ==
    /\ UNCHANGED <<queueVars, retryVars, extVars>>
    /\ nextId <= MaxMsgs
    /\ \E port \in Ports :
         SendUdp(CachedMessage(nextId, TRUE, "", port))
    /\ nextId' = nextId + 1
    /\ UNCHANGED <<isInitialized, isConnected, m_connected, pc, currentStatus,
                   cbArg, it, endIt, flushStart, logStart>>

\* HaLowMeshManager::setConnectionStatus
setConnectionStatus(status) == status

\* uiTask, BACK in the main screen: get_connection_status()
uiReadStatus ==
    /\ UNCHANGED <<queueVars, retryVars, extVars>>
    /\ pc["ui"] = "idle"
    /\ currentStatus' = isConnected
    /\ pc' = [pc EXCEPT !["ui"] = "ui_set"]
    /\ UNCHANGED <<isInitialized, isConnected, m_connected, messageCache,
                   transportLog, lastCall, nextId, cbArg, it, endIt, dangling,
                   flushStart, logStart>>

\* uiTask: setConnectionStatus(!currentStatus); flush if it was disconnected
uiToggle ==
    /\ UNCHANGED <<queueVars, retryVars, extVars>>
    /\ pc["ui"] = "ui_set"
    /\ isConnected' = setConnectionStatus(~currentStatus)
    /\ pc' = [pc EXCEPT !["ui"] = IF ~currentStatus THEN "flush_begin" ELSE "idle"]
    /\ UNCHANGED <<isInitialized, m_connected, messageCache, transportLog,
                   lastCall, nextId, currentStatus, cbArg, it, endIt, dangling,
                   flushStart, logStart>>

\* MMIoTSDK::connectToPeer: the SDK becomes connected and invokes the
\* connection callback with true
connectToPeer ==
    /\ UNCHANGED <<queueVars, retryVars, extVars>>
    /\ isInitialized
    /\ pc["sdk"] = "idle"
    /\ m_connected' = TRUE
    /\ cbArg' = TRUE
    /\ pc' = [pc EXCEPT !["sdk"] = "cb"]
    /\ UNCHANGED <<isInitialized, isConnected, messageCache, transportLog,
                   lastCall, nextId, currentStatus, it, endIt, dangling,
                   flushStart, logStart>>

\* MMIoTSDK::disconnectFromPeer: the SDK becomes disconnected and invokes the
\* connection callback with false
disconnectFromPeer ==
    /\ UNCHANGED <<queueVars, retryVars, extVars>>
    /\ isInitialized
    /\ pc["sdk"] = "idle"
    /\ m_connected' = FALSE
    /\ cbArg' = FALSE
    /\ pc' = [pc EXCEPT !["sdk"] = "cb"]
    /\ UNCHANGED <<isInitialized, isConnected, messageCache, transportLog,
                   lastCall, nextId, currentStatus, it, endIt, dangling,
                   flushStart, logStart>>

\* HaLowMeshManager::handleConnectionEvent: set the status, flush if connected
handleConnectionEvent ==
    /\ UNCHANGED <<queueVars, retryVars, extVars>>
    /\ pc["sdk"] = "cb"
    /\ isConnected' = setConnectionStatus(cbArg)
    /\ pc' = [pc EXCEPT !["sdk"] = IF cbArg THEN "flush_begin" ELSE "idle"]
    /\ UNCHANGED <<isInitialized, m_connected, messageCache, transportLog,
                   lastCall, nextId, currentStatus, cbArg, it, endIt, dangling,
                   flushStart, logStart>>

\* sendCachedMessages, entry: return at once on an empty cache, otherwise
\* take begin() and end() of the vector for the range-for
flushBegin(p) ==
    /\ UNCHANGED <<queueVars, retryVars, extVars>>
    /\ pc[p] = "flush_begin"
    /\ IF messageCache = <<>>
       THEN /\ pc' = [pc EXCEPT ![p] = "idle"]
            /\ UNCHANGED <<it, endIt, flushStart, logStart>>
       ELSE /\ pc' = [pc EXCEPT ![p] = "flush_loop"]
            /\ it' = [it EXCEPT ![p] = 1]
            /\ endIt' = [endIt EXCEPT ![p] = Len(messageCache)]
            /\ flushStart' = [flushStart EXCEPT ![p] = messageCache]
            /\ logStart' = [logStart EXCEPT ![p] = Len(transportLog)]
    /\ UNCHANGED <<isInitialized, isConnected, m_connected, messageCache,
                   transportLog, lastCall, nextId, currentStatus, cbArg,
                   dangling>>

\* a loop that walks the cache from its last element to its first
Deref_Backwards(p) ==
    IF endIt[p] + 1 - it[p] \in 1..Len(messageCache)
    THEN {messageCache[endIt[p] + 1 - it[p]]} ELSE {Garbage}

\* the elements *it may denote: the live element, or, through an invalidated
\* iterator, the stale element or garbage
Deref(p) ==
    IF ~dangling[p]
    THEN IF it[p] <= Len(messageCache) THEN {messageCache[it[p]]} ELSE {Garbage}
    ELSE {Garbage} \cup (IF it[p] <= Len(flushStart[p]) THEN {flushStart[p][it[p]]} ELSE {})

\* sendCachedMessages, one iteration of the range-for: re-send *it through
\* sendUdpMulticast / sendUdpUnicast
flushStep(p) ==
    /\ UNCHANGED <<queueVars, retryVars, extVars>>
    /\ pc[p] = "flush_loop"
    /\ it[p] <= endIt[p]
    /\ \E msg \in Deref(p) : SendUdp(msg)
    /\ it' = [it EXCEPT ![p] = it[p] + 1]
    /\ UNCHANGED <<isInitialized, isConnected, m_connected, nextId, pc,
                   currentStatus, cbArg, endIt, flushStart, logStart>>

\* the cache after messageCache.clear()
Clear(cache) == <<>>

\* sendCachedMessages, after the loop: messageCache.clear(); the elements are
\* destroyed under any other flush that is still iterating
flushClear(p) ==
    /\ UNCHANGED <<queueVars, retryVars, extVars>>
    /\ pc[p] = "flush_loop"
    /\ it[p] > endIt[p]
    /\ messageCache' = Clear(messageCache)
    /\ pc' = [pc EXCEPT ![p] = "flush_ret"]
    /\ dangling' = [q \in Flushers |->
                      IF q # p /\ pc[q] = "flush_loop" THEN TRUE ELSE dangling[q]]
    /\ UNCHANGED <<isInitialized, isConnected, m_connected, transportLog,
                   lastCall, nextId, currentStatus, cbArg, it, endIt,
                   flushStart, logStart>>

\* sendCachedMessages returns to its caller; its locals go out of scope
flushReturn(p) ==
    /\ UNCHANGED <<queueVars, retryVars, extVars>>
    /\ pc[p] = "flush_ret"
    /\ pc' = [pc EXCEPT ![p] = "idle"]
    /\ it' = [it EXCEPT ![p] = 1]
    /\ endIt' = [endIt EXCEPT ![p] = 0]
    /\ dangling' = [dangling EXCEPT ![p] = FALSE]
    /\ flushStart' = [flushStart EXCEPT ![p] = <<>>]
    /\ logStart' = [logStart EXCEPT ![p] = 0]
    /\ UNCHANGED <<isInitialized, isConnected, m_connected, messageCache,
                   transportLog, lastCall, nextId, currentStatus, cbArg>>

\* ------------------------------------------------------------------------
\* Inter-task queues (main/shared_data.cpp and the tasks that use them)
\* ------------------------------------------------------------------------
Chans == {"ui_update", "outgoing_message", "audio_command", "incoming_message"}

\* the producing contexts: a task inside one of the send_* helpers, the
\* network task and the UI task
Producers == {"helper", "net", "ui"}

\* timeouts of shared_data.cpp, in ms
QUEUE_SEND_TIMEOUT == 200
QUEUE_SEND_TIMEOUT_CRITICAL == 10
MUTEX_TIMEOUT_SHORT == 100
\* FreeRTOS: the timeout value that means wait without a time limit
portMAX_DELAY == -1
\* amounts of time a blocked producer is seen to wait in one step, in ms
TimeSteps == {10, 100}

\* the places that send to a queue
HelperSites == {"send_ui_update", "send_outgoing_message",
                "send_audio_command", "send_incoming_message"}

Sites(p) ==
    CASE p = "helper" -> HelperSites
      [] p = "net"    -> {"net_ui_update"}
      [] p = "ui"     -> {"ui_ptt", "ui_outgoing"}

\* the queue each place sends to
Channel(site) ==
    CASE site = "send_ui_update"        -> "ui_update"
      [] site = "send_outgoing_message" -> "outgoing_message"
      [] site = "send_audio_command"    -> "audio_command"
      [] site = "send_incoming_message" -> "incoming_message"
      [] site = "net_ui_update"         -> "ui_update"
      [] site = "ui_ptt"                -> "audio_command"
      [] site = "ui_outgoing"           -> "outgoing_message"

\* send_audio_command retrying with QUEUE_SEND_TIMEOUT
Timeouts_LongRetry(site) ==
    CASE site = "send_ui_update"        -> <<QUEUE_SEND_TIMEOUT>>
      [] site = "send_outgoing_message" -> <<QUEUE_SEND_TIMEOUT, MUTEX_TIMEOUT_SHORT>>
      [] site = "send_audio_command"    -> <<QUEUE_SEND_TIMEOUT_CRITICAL, QUEUE_SEND_TIMEOUT>>
      [] site = "send_incoming_message" -> <<QUEUE_SEND_TIMEOUT>>
      [] site = "net_ui_update"         -> <<0>>
      [] site = "ui_ptt"                -> <<portMAX_DELAY>>
      [] site = "ui_outgoing"           -> <<0>>

\* the timeouts of the xQueueSend calls each place makes, in order: the
\* second call is made only when the first one failed
Timeouts(site) ==
    CASE site = "send_ui_update"        -> <<QUEUE_SEND_TIMEOUT>>
      [] site = "send_outgoing_message" -> <<QUEUE_SEND_TIMEOUT, MUTEX_TIMEOUT_SHORT>>
      [] site = "send_audio_command"    -> <<QUEUE_SEND_TIMEOUT_CRITICAL, MUTEX_TIMEOUT_SHORT>>
      [] site = "send_incoming_message" -> <<QUEUE_SEND_TIMEOUT>>
      [] site = "net_ui_update"         -> <<0>>
      [] site = "ui_ptt"                -> <<portMAX_DELAY>>
      [] site = "ui_outgoing"           -> <<0>>

\* the task that receives from each queue
Consumer(ch) ==
    CASE ch = "ui_update"        -> "ui"
      [] ch = "incoming_message" -> "ui"
      [] ch = "audio_command"    -> "audio"
      [] ch = "outgoing_message" -> "net"

NoCall == [site |-> "none", item |-> 0, try |-> 0, remaining |-> 0,
           blocked |-> 0, ret |-> "none"]

\* shared_data_init: the four queues are created empty
QueueInit ==
    /\ queue = [ch \in Chans |-> <<>>]
    /\ enq = [ch \in Chans |-> <<>>]
    /\ deq = [ch \in Chans |-> <<>>]
    /\ nextItem = 1
    /\ qpc = [p \in Producers |-> "idle"]
    /\ cur = [p \in Producers |-> NoCall]

\* xQueueSendToFront in place of xQueueSend
xQueueSend_ToFront(q, item) ==
    IF Len(q) < QueueCap THEN <<item>> \o q ELSE q

\* a send that makes room by discarding the oldest item of a full queue
xQueueSend_DropOldest(q, item) ==
    IF Len(q) < QueueCap THEN Append(q, item) ELSE Append(Tail(q), item)

\* the queue after xQueueSend(q, &item, ...) has returned: the item is copied
\* to the back if there is a free slot, otherwise the queue is left alone
xQueueSend(q, item) ==
    IF Len(q) < QueueCap THEN Append(q, item) ELSE q

\* xQueueReceive(q, &item, 0) on a non-empty queue: the item received and the
\* queue left behind
xQueueReceive(q) == [item |-> Head(q), rest |-> Tail(q)]

\* a producer enters one of its sending places with a new item
qStart(p) ==
    /\ UNCHANGED <<meshVars, retryVars, extVars>>
    /\ qpc[p] = "idle"
    /\ nextItem <= MaxItems
    /\ \E site \in Sites(p) :
         cur' = [cur EXCEPT ![p] =
                   [site |-> site, item |-> nextItem, try |-> 1,
                    remaining |-> Timeouts(site)[1], blocked |-> 0,
                    ret |-> "none"]]
    /\ nextItem' = nextItem + 1
    /\ qpc' = [qpc EXCEPT ![p] = "sending"]
    /\ UNCHANGED <<queue, enq, deq>>

\* xQueueSend finds a free slot: the item is enqueued and the call, and with
\* it the helper, returns pdPASS
qSendOk(p) ==
    /\ UNCHANGED <<meshVars, retryVars, extVars>>
    /\ qpc[p] = "sending"
    /\ Len(queue[Channel(cur[p].site)]) < QueueCap
    /\ queue' = [queue EXCEPT ![Channel(cur[p].site)] = xQueueSend(@, cur[p].item)]
    /\ enq' = [enq EXCEPT ![Channel(cur[p].site)] = Append(@, cur[p].item)]
    /\ cur' = [cur EXCEPT ![p].ret = "pdPASS"]
    /\ qpc' = [qpc EXCEPT ![p] = "ret"]
    /\ UNCHANGED <<deq, nextItem>>

\* xQueueSend finds the queue full and time left: the producer stays blocked
\* while time passes
qSendWait(p) ==
    /\ UNCHANGED <<meshVars, retryVars, extVars>>
    /\ qpc[p] = "sending"
    /\ Len(queue[Channel(cur[p].site)]) >= QueueCap
    /\ cur[p].remaining # 0
    /\ \E d \in TimeSteps :
         /\ cur[p].remaining # portMAX_DELAY => d <= cur[p].remaining
         /\ cur[p].blocked + d <= MaxBlockedMs
         /\ cur' = [cur EXCEPT ![p].blocked = @ + d,
                               ![p].remaining =
                                   IF @ = portMAX_DELAY THEN @ ELSE @ - d]
    /\ UNCHANGED <<queue, enq, deq, nextItem, qpc>>

\* xQueueSend finds the queue full for all of the block time it was given
qSendWaitOut(p) ==
    /\ UNCHANGED <<meshVars, retryVars, extVars>>
    /\ qpc[p] = "sending"
    /\ Len(queue[Channel(cur[p].site)]) >= QueueCap
    /\ cur[p].remaining > 0
    /\ cur[p].blocked + cur[p].remaining <= MaxBlockedMs
    /\ cur' = [cur EXCEPT ![p].blocked = @ + cur[p].remaining,
                          ![p].remaining = 0]
    /\ UNCHANGED <<queue, enq, deq, nextItem, qpc>>

\* xQueueSend finds the queue full and no time left: it returns errQUEUE_FULL;
\* send_outgoing_message and send_audio_command then call it a second time,
\* every other place gives up
qSendTimeout(p) ==
    /\ UNCHANGED <<meshVars, retryVars, extVars>>
    /\ qpc[p] = "sending"
    /\ Len(queue[Channel(cur[p].site)]) >= QueueCap
    /\ cur[p].remaining = 0
    /\ queue' = [queue EXCEPT ![Channel(cur[p].site)] = xQueueSend(@, cur[p].item)]
    /\ IF cur[p].try < Len(Timeouts(cur[p].site))
       THEN /\ cur' = [cur EXCEPT ![p].try = @ + 1,
                                  ![p].remaining = Timeouts(cur[p].site)[cur[p].try + 1]]
            /\ UNCHANGED qpc
       ELSE /\ cur' = [cur EXCEPT ![p].ret = "errQUEUE_FULL"]
            /\ qpc' = [qpc EXCEPT ![p] = "ret"]
    /\ UNCHANGED <<enq, deq, nextItem>>

\* the sending place returns to its caller
qReturn(p) ==
    /\ UNCHANGED <<meshVars, retryVars, extVars>>
    /\ qpc[p] = "ret"
    /\ qpc' = [qpc EXCEPT ![p] = "idle"]
    /\ cur' = [cur EXCEPT ![p] = NoCall]
    /\ UNCHANGED <<queue, enq, deq, nextItem>>

\* the consumer of a queue polls it with xQueueReceive(..., 0) in its loop;
\* a task that is inside a send does not get there
qReceive(ch) ==
    /\ UNCHANGED <<meshVars, retryVars, extVars>>
    /\ Consumer(ch) \in Producers => qpc[Consumer(ch)] = "idle"
    /\ queue[ch] # <<>>
    /\ deq' = [deq EXCEPT ![ch] = Append(@, xQueueReceive(queue[ch]).item)]
    /\ queue' = [queue EXCEPT ![ch] = xQueueReceive(queue[ch]).rest]
    /\ UNCHANGED <<enq, nextItem, qpc, cur>>

\* ------------------------------------------------------------------------
\* Error statistics (main/error_handling.c)
\* ------------------------------------------------------------------------
\* error_category_t
ERROR_CATEGORY_NONE == 0
ERROR_CATEGORY_SYSTEM == 1
ERROR_CATEGORY_NETWORK == 2
ERROR_CATEGORY_AUDIO == 3
ERROR_CATEGORY_CRYPTO == 4
ERROR_CATEGORY_STORAGE == 5
ERROR_CATEGORY_SENSOR == 6
ERROR_CATEGORY_UI == 7
ERROR_CATEGORY_CONFIG == 8
ERROR_CATEGORY_HARDWARE == 9
ERROR_CATEGORY_MAX == 10

\* error_code_t (ERROR_TIMEOUT is defined above)
ERROR_NONE == 0
ERROR_MEMORY_ALLOCATION == 1001
ERROR_NULL_POINTER == 1002
ERROR_SOCKET_SEND == 2004
ERROR_AUDIO_INIT == 3001
ERROR_STORAGE_READ == 5002
ERROR_HARDWARE_FAULT == 9004

\* the tasks that use the error API
ErrTasks == {"t1", "t2"}

\* the errors the tasks report
ReportInputs ==
    {[category |-> ERROR_CATEGORY_SYSTEM, code |-> ERROR_TIMEOUT],
     [category |-> ERROR_CATEGORY_NETWORK, code |-> ERROR_SOCKET_SEND]}

NoError == [category |-> ERROR_CATEGORY_NONE, code |-> ERROR_NONE]
NoQuery == [asked |-> FALSE, result |-> FALSE, expected |-> FALSE]
NoRecovery == [called |-> FALSE, category |-> ERROR_CATEGORY_NONE,
               code |-> ERROR_NONE, strategy |-> "none", ret |-> FALSE]

\* get_timestamp_ms(): the model's clock stays far below 2^32 ms
get_timestamp_ms == e_now

\* g_stats = {0} and no call of the error API made
ErrStatsZero ==
    /\ e_now = 0
    /\ last_error_timestamp = 0
    /\ errors_by_category = [c \in 0..(ERROR_CATEGORY_MAX - 1) |-> 0]
    /\ e_pc = [t \in ErrTasks |-> "idle"]
    /\ e_arg = [t \in ErrTasks |-> NoError]
    /\ e_ret = NoError
    /\ reportCalls = 0
    /\ lastReportAt = -1
    /\ e_query = NoQuery
    /\ recovery_attempts = 0
    /\ successful_recoveries = 0
    /\ failed_recoveries = 0
    /\ rec_last = NoRecovery

\* static state of error_handling.c before error_handling_init
ErrIdle == ErrStatsZero /\ g_stats_mutex = "NULL"

\* update_stats, the part under the mutex
UpdateStats(category, code) ==
    /\ total_errors' = total_errors + 1
    /\ errors_by_category' =
         IF category < ERROR_CATEGORY_MAX
         THEN [errors_by_category EXCEPT ![category] = @ + 1]
         ELSE errors_by_category
    /\ last_error_code' = code
    /\ last_error_timestamp' = get_timestamp_ms

\* ------------------------------------------------------------------------
\* retry_with_backoff (main/error_handling.c)
\* ------------------------------------------------------------------------
\* retry_with_backoff is not running
RetryIdle ==
    /\ r_pc = "off"
    /\ func = "NULL"
    /\ config = "NULL"
    /\ error_context = "NULL"
    /\ g_initialized = FALSE
    /\ max_attempts = 0
    /\ attempt = 0
    /\ success = FALSE
    /\ results = <<>>
    /\ r_ret = "none"
    /\ total_errors = 0
    /\ last_error_code = 0

\* a call retry_with_backoff(func, context, config, error_context)
RetryInit ==
    /\ r_pc = "entry"
    /\ func \in {"fn", "NULL"}
    /\ config \in {"cfg", "NULL"}
    /\ error_context \in {"ctx", "NULL"}
    /\ g_initialized \in BOOLEAN
    /\ max_attempts \in 0..MaxAttempts
    /\ config = "NULL" => max_attempts = 0
    /\ attempt = 0
    /\ success = FALSE
    /\ results = <<>>
    /\ r_ret = "none"
    /\ total_errors = 0
    /\ last_error_code = 0

\* a loop condition that is off by one
LoopCond_OffByOne(a, m, s) == a <= m /\ ~s

\* the condition of the while loop
LoopCond(a, m, s) == a < m /\ ~s

\* if (!func || !config) return false;
retryEnter ==
    /\ UNCHANGED <<meshVars, queueVars, extVars>>
    /\ r_pc = "entry"
    /\ IF func = "NULL" \/ config = "NULL"
       THEN r_pc' = "done" /\ r_ret' = FALSE
       ELSE r_pc' = "loop" /\ UNCHANGED r_ret
    /\ UNCHANGED <<func, config, error_context, g_initialized, max_attempts,
                   attempt, success, results, total_errors, last_error_code>>

\* one iteration of the while loop: invoke func, wait if it failed and
\* attempts remain, count the attempt
retryAttempt ==
    /\ UNCHANGED <<meshVars, queueVars, extVars>>
    /\ r_pc = "loop"
    /\ LoopCond(attempt, max_attempts, success)
    /\ \E res \in BOOLEAN :
         /\ success' = res
         /\ results' = Append(results, res)
    \* attempt < max_attempts <= UINT32_MAX here, so attempt++ cannot wrap
    /\ attempt' = attempt + 1
    /\ UNCHANGED <<r_pc, func, config, error_context, g_initialized,
                   max_attempts, r_ret, total_errors, last_error_code>>

\* after the loop: on failure with an error_context, error_report counts a
\* System/Timeout error (update_stats skips the count when the error system
\* is not initialized or the statistics mutex is not obtained); return success
retryExit ==
    /\ UNCHANGED <<taskVars, meshVars, queueVars, netVars, backoffVars>>
    /\ r_pc = "loop"
    /\ ~LoopCond(attempt, max_attempts, success)
    /\ IF ~success /\ error_context # "NULL" /\ g_initialized
          /\ g_stats_mutex # "NULL"
       THEN \/ UpdateStats(ERROR_CATEGORY_SYSTEM, ERROR_TIMEOUT)
            \/ UNCHANGED <<total_errors, last_error_code,
                           errors_by_category, last_error_timestamp>>
       ELSE UNCHANGED <<total_errors, last_error_code,
                        errors_by_category, last_error_timestamp>>
    /\ UNCHANGED <<e_now, g_stats_mutex, e_pc, e_arg, e_ret, reportCalls,
                   lastReportAt, e_query, recovery_attempts,
                   successful_recoveries, failed_recoveries, rec_last>>
    /\ r_ret' = success
    /\ r_pc' = "done"
    /\ UNCHANGED <<func, config, error_context, g_initialized, max_attempts,
                   attempt, success, results>>

\* ------------------------------------------------------------------------
\* calculate_backoff_delay (main/error_handling.c)
\* ------------------------------------------------------------------------
\* retry policies: base_delay_ms, max_delay_ms and backoff_multiplier as the
\* fraction num / den (2.0f is 2/1, 1.5f is 3/2)
RETRY_CONFIG_DEFAULT == [base |-> 100, max |-> 5000, num |-> 2, den |-> 1]
RETRY_CONFIG_AUDIO == [base |-> 50, max |-> 1000, num |-> 2, den |-> 1]

\* the policies the delays are computed for: the two above and small ones
\* with either multiplier, with base_delay below and above max_delay
Policies ==
    {RETRY_CONFIG_DEFAULT, RETRY_CONFIG_AUDIO}
      \cup {[base |-> b, max |-> 20, num |-> m[1], den |-> m[2]] :
              b \in {3, 30}, m \in {<<2, 1>>, <<3, 2>>}}

\* (uint32_t)(delay * multiplier): the product is formed in float and
\* truncated; it is exact for the delays followed here (below 2^24)
MulTrunc(delay, p) == (delay * p.num) \div p.den

\* the for loop: multiply once per attempt, stop at the first product above
\* max_delay and return max_delay
RECURSIVE BackoffLoop(_, _, _, _)
BackoffLoop(delay, i, att, p) ==
    IF i >= att THEN delay
    ELSE IF MulTrunc(delay, p) > p.max THEN p.max
    ELSE BackoffLoop(MulTrunc(delay, p), i + 1, att, p)

\* jitter of up to the whole delay
JitterMax_Full(delay) == delay

\* uint32_t jitter_max = delay / 4;
JitterMax(delay) == delay \div 4

\* add_jitter(delay_ms, max_jitter_ms) for the value r returned by rand()
add_jitter(delay_ms, max_jitter_ms, r) ==
    IF max_jitter_ms = 0 THEN delay_ms ELSE delay_ms + (r % max_jitter_ms)

\* the values of rand() that give the different jitters below m
RandValues(m) == 0..(IF m > 0 THEN m - 1 ELSE 0)

\* the values calculate_backoff_delay(att, base, max, multiplier, jitter)
\* can return
calculate_backoff_delay(att, p, jitter) ==
    LET delay == BackoffLoop(p.base, 0, att, p)
    IN  IF jitter /\ delay < p.max
        THEN {add_jitter(delay, JitterMax(delay), r) :
                r \in RandValues(JitterMax(delay))}
        ELSE {delay}

\* no delay has been computed
BackoffIdle ==
    /\ b_policy = RETRY_CONFIG_DEFAULT
    /\ jitter_enabled = FALSE
    /\ b_attempt = -1
    /\ b_delay = 0

\* a caller about to compute the delays of a policy for attempts 0, 1, 2, ...
BackoffInit ==
    /\ b_policy \in Policies
    /\ jitter_enabled \in BOOLEAN
    /\ b_attempt = -1
    /\ b_delay = 0

\* the delay of the next attempt is computed
backoffNext ==
    /\ UNCHANGED <<taskVars, meshVars, queueVars, netVars, retryVars, errVars>>
    /\ b_attempt < MaxBackoffAttempt
    /\ b_attempt' = b_attempt + 1
    /\ b_delay' \in calculate_backoff_delay(b_attempt + 1, b_policy, jitter_enabled)
    /\ UNCHANGED <<b_policy, jitter_enabled>>

\* ------------------------------------------------------------------------
\* Error API (main/error_handling.c)
\* ------------------------------------------------------------------------
\* the arguments and locals of retry_with_backoff
retryLocals == <<r_pc, func, config, max_attempts, attempt, success, results,
                 r_ret, error_context>>

\* g_stats.recovery_* counters and the record of the last recovery
recoveryVars == <<recovery_attempts, successful_recoveries, failed_recoveries,
                  rec_last>>

\* error_handling_init, first call with the mutex created: the statistics
\* are zeroed and g_initialized is set
error_handling_init ==
    /\ UNCHANGED <<taskVars, meshVars, queueVars, netVars, backoffVars,
                   retryLocals>>
    /\ ~g_initialized
    /\ g_stats_mutex' = "free"
    /\ g_initialized' = TRUE
    /\ total_errors' = 0
    /\ last_error_code' = ERROR_NONE
    /\ last_error_timestamp' = 0
    /\ errors_by_category' = [c \in 0..(ERROR_CATEGORY_MAX - 1) |-> 0]
    /\ recovery_attempts' = 0
    /\ successful_recoveries' = 0
    /\ failed_recoveries' = 0
    /\ UNCHANGED <<e_now, e_pc, e_arg, e_ret, reportCalls, lastReportAt,
                   e_query, rec_last>>

\* the ErrorContext error_report builds from its arguments
ErrorContext(category, code) == [category |-> category, code |-> code]

\* error_report, entry: the context is built from the arguments and
\* update_stats is entered
errReport(t, in) ==
    /\ UNCHANGED <<taskVars, meshVars, queueVars, netVars, backoffVars,
                   retryVars, recoveryVars>>
    /\ e_pc[t] = "idle"
    /\ reportCalls < MaxReports
    /\ e_arg' = [e_arg EXCEPT ![t] = ErrorContext(in.category, in.code)]
    /\ lastReportAt' = e_now
    /\ e_pc' = [e_pc EXCEPT ![t] = "update"]
    /\ UNCHANGED <<e_now, last_error_timestamp, errors_by_category,
                   g_stats_mutex, e_ret, reportCalls, e_query>>

\* a task reports one of the errors of ReportInputs
errReportCall(t) == \E in \in ReportInputs : errReport(t, in)

\* the categories error_report can be given: the values of error_category_t,
\* of which the last, ERROR_CATEGORY_MAX, is no index of errors_by_category
StatsInputs ==
    {[category |-> c, code |-> ERROR_NONE] :
        c \in {ERROR_CATEGORY_NONE, ERROR_CATEGORY_HARDWARE, ERROR_CATEGORY_MAX}}

\* update_stats returns at once when the error system is not initialized, and
\* after 100 ms when another task keeps the mutex; error_report then returns
\* the context with the statistics as they were
errReportUncounted(t) ==
    /\ UNCHANGED <<taskVars, meshVars, queueVars, netVars, backoffVars,
                   retryVars, recoveryVars>>
    /\ e_pc[t] = "update"
    /\ \/ ~g_initialized
       \/ g_stats_mutex = "NULL"
       \/ g_stats_mutex \in ErrTasks \ {t}
    /\ e_ret' = e_arg[t]
    /\ reportCalls' = reportCalls + 1
    /\ e_pc' = [e_pc EXCEPT ![t] = "idle"]
    /\ UNCHANGED <<e_now, last_error_timestamp, errors_by_category,
                   g_stats_mutex, e_arg, lastReportAt, e_query>>

\* update_stats obtains the mutex
errTake(t) ==
    /\ UNCHANGED <<taskVars, meshVars, queueVars, netVars, backoffVars,
                   retryVars, recoveryVars>>
    /\ e_pc[t] = "update"
    /\ g_initialized
    /\ g_stats_mutex = "free"
    /\ g_stats_mutex' = t
    /\ e_pc' = [e_pc EXCEPT ![t] = "locked"]
    /\ UNCHANGED <<e_now, last_error_timestamp, errors_by_category, e_arg,
                   e_ret, reportCalls, lastReportAt, e_query>>

\* update_stats counts the error and gives the mutex back; error_report
\* returns the context
errReportCounted(t) ==
    /\ UNCHANGED <<taskVars, meshVars, queueVars, netVars, backoffVars,
                   retryLocals, recoveryVars>>
    /\ e_pc[t] = "locked"
    /\ UpdateStats(e_arg[t].category, e_arg[t].code)
    /\ g_stats_mutex' = "free"
    /\ e_ret' = e_arg[t]
    /\ reportCalls' = reportCalls + 1
    /\ e_pc' = [e_pc EXCEPT ![t] = "idle"]
    /\ UNCHANGED <<g_initialized, e_now, e_arg, lastReportAt, e_query>>

\* error_reset_stats obtains the mutex
errResetTake(t) ==
    /\ UNCHANGED <<taskVars, meshVars, queueVars, netVars, backoffVars,
                   retryVars, recoveryVars>>
    /\ e_pc[t] = "idle"
    /\ g_initialized
    /\ g_stats_mutex = "free"
    /\ g_stats_mutex' = t
    /\ e_pc' = [e_pc EXCEPT ![t] = "reset"]
    /\ UNCHANGED <<e_now, last_error_timestamp, errors_by_category, e_arg,
                   e_ret, reportCalls, lastReportAt, e_query>>

\* error_reset_stats: memset(&g_stats, 0, sizeof(g_stats)) and give
errReset(t) ==
    /\ UNCHANGED <<taskVars, meshVars, queueVars, netVars, backoffVars,
                   retryLocals>>
    /\ e_pc[t] = "reset"
    /\ total_errors' = 0
    /\ last_error_code' = ERROR_NONE
    /\ last_error_timestamp' = 0
    /\ errors_by_category' = [c \in 0..(ERROR_CATEGORY_MAX - 1) |-> 0]
    /\ recovery_attempts' = 0
    /\ successful_recoveries' = 0
    /\ failed_recoveries' = 0
    /\ reportCalls' = 0
    /\ g_stats_mutex' = "free"
    /\ e_pc' = [e_pc EXCEPT ![t] = "idle"]
    /\ UNCHANGED <<g_initialized, e_now, e_arg, e_ret, lastReportAt, e_query,
                   rec_last>>

\* error_is_in_error_state: the statistics are read without the mutex
InErrorState ==
    /\ total_errors > 10
    /\ last_error_timestamp > 0
    /\ get_timestamp_ms - last_error_timestamp < 5000

\* a task asks error_is_in_error_state(); next to the result the model notes
\* whether more than 10 errors are counted and the last error_report call was
\* made less than 5000 ms ago
errQuery ==
    /\ UNCHANGED <<taskVars, meshVars, queueVars, netVars, backoffVars,
                   retryVars, recoveryVars>>
    /\ e_query' = [asked |-> TRUE,
                   result |-> InErrorState,
                   expected |-> /\ total_errors > 10
                                /\ lastReportAt >= 0
                                /\ e_now - lastReportAt < 5000]
    /\ e_query' # e_query
    /\ UNCHANGED <<e_now, last_error_timestamp, errors_by_category,
                   g_stats_mutex, e_pc, e_arg, e_ret, reportCalls,
                   lastReportAt>>

\* time passes
errTick ==
    /\ UNCHANGED <<taskVars, meshVars, queueVars, netVars, backoffVars,
                   retryVars, recoveryVars>>
    /\ e_now + ClockStep <= MaxClock
    /\ e_now' = e_now + ClockStep
    /\ UNCHANGED <<last_error_timestamp, errors_by_category, g_stats_mutex,
                   e_pc, e_arg, e_ret, reportCalls, lastReportAt, e_query>>

\* ------------------------------------------------------------------------
\* error_recover (main/error_handling.c)
\* ------------------------------------------------------------------------
\* the error codes error_recover is called with
RecoverCodes == {ERROR_NONE, ERROR_MEMORY_ALLOCATION, ERROR_NULL_POINTER,
                 ERROR_TIMEOUT, ERROR_SOCKET_SEND, ERROR_AUDIO_INIT,
                 ERROR_STORAGE_READ, ERROR_HARDWARE_FAULT}

\* a strategy table that retries hardware errors
get_recovery_strategy_HardwareRetry(error) ==
    CASE error.category = ERROR_CATEGORY_NETWORK -> "RECOVERY_BACKOFF"
      [] error.category = ERROR_CATEGORY_AUDIO -> "RECOVERY_RETRY"
      [] error.category = ERROR_CATEGORY_SYSTEM ->
           IF error.code = ERROR_MEMORY_ALLOCATION THEN "RECOVERY_RESET"
           ELSE IF error.code = ERROR_TIMEOUT THEN "RECOVERY_BACKOFF"
           ELSE "RECOVERY_RETRY"
      [] error.category = ERROR_CATEGORY_HARDWARE -> "RECOVERY_RETRY"
      [] error.category = ERROR_CATEGORY_STORAGE -> "RECOVERY_BACKOFF"
      [] OTHER -> "RECOVERY_RETRY"

\* get_recovery_strategy: the switch over error->category
get_recovery_strategy(error) ==
    CASE error.category = ERROR_CATEGORY_NETWORK -> "RECOVERY_BACKOFF"
      [] error.category = ERROR_CATEGORY_AUDIO -> "RECOVERY_RETRY"
      [] error.category = ERROR_CATEGORY_SYSTEM ->
           IF error.code = ERROR_MEMORY_ALLOCATION THEN "RECOVERY_RESET"
           ELSE IF error.code = ERROR_TIMEOUT THEN "RECOVERY_BACKOFF"
           ELSE "RECOVERY_RETRY"
      [] error.category = ERROR_CATEGORY_HARDWARE -> "RECOVERY_RESET"
      [] error.category = ERROR_CATEGORY_STORAGE -> "RECOVERY_BACKOFF"
      [] OTHER -> "RECOVERY_RETRY"

\* attempt_recovery: the switch over the strategy
attempt_recovery(strategy) ==
    CASE strategy = "RECOVERY_NONE" -> FALSE
      [] strategy = "RECOVERY_RETRY" -> TRUE
      [] strategy = "RECOVERY_BACKOFF" -> TRUE
      [] strategy = "RECOVERY_RESET" -> FALSE
      [] strategy = "RECOVERY_FALLBACK" -> TRUE
      [] strategy = "RECOVERY_RESTART" -> FALSE
      [] strategy = "RECOVERY_ESCALATE" -> FALSE
      [] OTHER -> FALSE

\* error_recover(&error) for an error of any category, the value
\* ERROR_CATEGORY_MAX included: the strategy is chosen and applied, and the
\* recovery counters are updated when the statistics mutex exists (no other
\* task holds it here)
error_recover ==
    /\ UNCHANGED <<taskVars, meshVars, queueVars, netVars, backoffVars,
                   retryVars>>
    /\ recovery_attempts < MaxRecoveries
    /\ \E category \in ERROR_CATEGORY_NONE..ERROR_CATEGORY_MAX, code \in RecoverCodes :
         LET error == ErrorContext(category, code)
             strategy == get_recovery_strategy(error)
             recovered == attempt_recovery(strategy)
         IN  /\ rec_last' = [called |-> TRUE, category |-> category,
                             code |-> code, strategy |-> strategy,
                             ret |-> recovered]
             /\ IF g_stats_mutex # "NULL"
                THEN /\ recovery_attempts' = recovery_attempts + 1
                     /\ successful_recoveries' =
                          successful_recoveries + (IF recovered THEN 1 ELSE 0)
                     /\ failed_recoveries' =
                          failed_recoveries + (IF recovered THEN 0 ELSE 1)
                ELSE UNCHANGED <<recovery_attempts, successful_recoveries,
                                 failed_recoveries>>
    /\ UNCHANGED <<e_now, last_error_timestamp, errors_by_category,
                   g_stats_mutex, e_pc, e_arg, e_ret, reportCalls,
                   lastReportAt, e_query>>

\* error_recover(NULL) returns false before anything else
error_recover_null ==
    /\ UNCHANGED <<taskVars, meshVars, queueVars, netVars, backoffVars,
                   retryVars>>
    /\ rec_last' = [NoRecovery EXCEPT !.called = TRUE, !.strategy = "NULL"]
    /\ rec_last' # rec_last
    /\ UNCHANGED <<e_now, last_error_timestamp, errors_by_category,
                   g_stats_mutex, e_pc, e_arg, e_ret, reportCalls,
                   lastReportAt, e_query, recovery_attempts,
                   successful_recoveries, failed_recoveries>>

\* ------------------------------------------------------------------------
\* Network task, outgoing messages (main/network_task.cpp,
\* main/network_utils.cpp)
\* ------------------------------------------------------------------------
\* send_tcp_message_default: return send_tcp_message(host_ip, payload, 3)
send_tcp_message_default_retries == 3

NoTcp == [caller |-> "none", item |-> 0, max_retries |-> 0, attempt |-> 0,
          success |-> FALSE, tries |-> 0, ret |-> "none",
          opened |-> FALSE, closes |-> 0]
NoOutgoing == [item |-> 0, down |-> FALSE, done |-> FALSE, ret |-> FALSE]
NoPacket == [kind |-> "none", outcome |-> "none", inner |-> "none",
             from |-> "none", sent |-> 0, at |-> 0]

\* the state of the network tasks before they run: no contacts, no link
\* statistics, SecurityManager not begun
NetIdle ==
    /\ n_pc = "loop"
    /\ out_msg = 0
    /\ tcp = NoTcp
    /\ g_network_status = "NETWORK_STATUS_DISCONNECTED"
    /\ n_last = NoOutgoing
    /\ g_contact_list = <<>>
    /\ g_peer_link_stats = <<>>
    /\ sec_isInitialized = FALSE
    /\ groupKey = <<>>
    /\ in_last = NoPacket
    /\ in_discarded = 0

\* what the inbound path owns
inboundVars == <<g_peer_link_stats, sec_isInitialized, groupKey, in_last,
                 in_discarded>>

\* a loop that allows one attempt more
TcpLoopCond_OneMore(t) == t.attempt <= t.max_retries + 1 /\ ~t.success

\* while (attempt <= max_retries && !success)
TcpLoopCond(t) == t.attempt <= t.max_retries /\ ~t.success

\* send_tcp_message, entry: invalid arguments (NULL host, empty payload,
\* negative max_retries, an address that is not dotted IPv4) return false
\* before any attempt; otherwise the loop is entered
TcpEnter(caller, item, max_retries, valid) ==
    IF valid /\ max_retries >= 0
    THEN /\ tcp' = [caller |-> caller, item |-> item,
                    max_retries |-> max_retries, attempt |-> 0,
                    success |-> FALSE, tries |-> 0, ret |-> "none",
                    opened |-> FALSE, closes |-> 0]
         /\ n_pc' = "tcp"
    ELSE /\ tcp' = [caller |-> caller, item |-> item,
                    max_retries |-> max_retries, attempt |-> 0,
                    success |-> FALSE, tries |-> 0, ret |-> "false",
                    opened |-> FALSE, closes |-> 0]
         /\ n_pc' = "loop"

\* networkTask: xQueueReceive(outgoing_message_queue, &out_msg, 0) returned
\* a message; send_tcp_message_default(out_msg.target_ip, payload) is called
netDequeue ==
    /\ UNCHANGED <<taskVars, meshVars, retryVars, backoffVars, errVars>>
    /\ isInitialized
    /\ n_pc = "loop"
    /\ queue["outgoing_message"] # <<>>
    /\ LET r == xQueueReceive(queue["outgoing_message"])
       IN  /\ queue' = [queue EXCEPT !["outgoing_message"] = r.rest]
           /\ deq' = [deq EXCEPT !["outgoing_message"] = Append(@, r.item)]
           /\ out_msg' = r.item
           /\ \E valid \in BOOLEAN :
                /\ TcpEnter("net", r.item, send_tcp_message_default_retries, valid)
                /\ n_last' = [item |-> r.item, down |-> ~isConnected,
                              done |-> ~valid, ret |-> FALSE]
    /\ UNCHANGED <<enq, nextItem, qpc, cur>>
    /\ UNCHANGED <<g_network_status, g_contact_list, inboundVars>>

\* another caller of send_tcp_message(host_ip, payload, max_retries)
tcpCall ==
    /\ UNCHANGED <<taskVars, meshVars, queueVars, retryVars, backoffVars,
                   errVars>>
    /\ n_pc = "loop"
    /\ \E max_retries \in (-1)..MaxRetries, valid \in BOOLEAN :
         TcpEnter("other", 0, max_retries, valid)
    /\ tcp' # tcp
    /\ UNCHANGED <<out_msg, n_last, g_network_status, g_contact_list,
                   inboundVars>>

\* create_tcp_socket() returned a socket in an iteration with this outcome
SocketOpened(outcome) == outcome # "socket"

\* the close(sock) calls of an iteration: none without a socket; one after a
\* failed connect; after a failed send the one in the send loop, before the
\* break, and the one after the loop; the one after the loop on success
SocketCloses(outcome) ==
    CASE outcome = "socket"  -> 0
      [] outcome = "connect" -> 1
      [] outcome = "send"    -> 2
      [] outcome = "sent"    -> 1

\* one iteration of the loop: socket creation, connect or send fails and the
\* attempt is counted, or the whole payload is sent
tcpAttempt ==
    /\ UNCHANGED <<taskVars, meshVars, queueVars, retryVars, backoffVars,
                   errVars>>
    /\ n_pc = "tcp"
    /\ TcpLoopCond(tcp)
    /\ \E outcome \in {"socket", "connect", "send", "sent"} :
         /\ tcp' = [tcp EXCEPT !.tries = @ + 1,
                               !.success = (outcome = "sent"),
                               !.attempt = IF outcome = "sent" THEN @ ELSE @ + 1,
                               !.opened = SocketOpened(outcome),
                               !.closes = SocketCloses(outcome)]
         /\ g_network_status' =
              IF outcome \in {"send", "sent"}
              THEN "NETWORK_STATUS_CONNECTED" ELSE g_network_status
    /\ UNCHANGED <<n_pc, out_msg, n_last, g_contact_list, inboundVars>>

\* after the loop: on failure the status becomes NETWORK_STATUS_ERROR; the
\* result is returned and networkTask goes on with its loop, logging a
\* failure and keeping nothing of the message
tcpExit ==
    /\ UNCHANGED <<taskVars, meshVars, queueVars, retryVars, backoffVars,
                   errVars>>
    /\ n_pc = "tcp"
    /\ ~TcpLoopCond(tcp)
    /\ tcp' = [tcp EXCEPT !.ret = IF tcp.success THEN "true" ELSE "false"]
    /\ g_network_status' =
         IF tcp.success THEN g_network_status ELSE "NETWORK_STATUS_ERROR"
    /\ n_last' = IF tcp.caller = "net"
                 THEN [n_last EXCEPT !.done = TRUE, !.ret = tcp.success]
                 ELSE n_last
    /\ n_pc' = "loop"
    /\ UNCHANGED <<out_msg, g_contact_list, inboundVars>>

\* ------------------------------------------------------------------------
\* Inbound packets (main/network_task.cpp, main/SecurityManager.cpp)
\* ------------------------------------------------------------------------
\* what a received byte buffer holds: bytes air_com_packet__unpack rejects,
\* a NodeInfo packet, an EncryptedPacket, a HealthCheckResponse, a packet of
\* another type
PacketKinds == {"malformed", "node_info", "encrypted", "health_response",
                "other"}

\* the nodes getMeshNodes() can return: none before begin()
DiscoveredNodes == IF isInitialized THEN {<<>>, <<"B">>} ELSE {<<>>}

\* the contacts networkTask builds from getMeshNodes(): callsign
\* "CONTACT-<n>" and the address; node_id is left empty
ContactsFrom(nodes) ==
    [i \in DOMAIN nodes |->
        [callsign |-> i, node_id |-> "", ipAddress |-> nodes[i]]]

\* networkTask, step 4: g_contact_list is cleared and rebuilt from the nodes
\* (when the mutex is not obtained within 500 ms the list stays as it is)
netUpdateContacts ==
    /\ UNCHANGED <<taskVars, meshVars, queueVars, retryVars, backoffVars,
                   errVars>>
    /\ n_pc = "loop"
    /\ \E nodes \in DiscoveredNodes :
         g_contact_list' = ContactsFrom(nodes)
    /\ g_contact_list' # g_contact_list
    /\ UNCHANGED <<n_pc, out_msg, tcp, g_network_status, n_last, inboundVars>>

\* "THIS_IS_A_DEFAULT_32_BYTE_KEY!!" and its terminating zero byte
default_key ==
    <<84, 72, 73, 83, 95, 73, 83, 95, 65, 95, 68, 69, 70, 65, 85, 76,
      84, 95, 51, 50, 95, 66, 89, 84, 69, 95, 75, 69, 89, 33, 33, 0>>

\* SecurityManager::begin: the default group key is installed
secBegin ==
    /\ UNCHANGED <<taskVars, meshVars, queueVars, retryVars, backoffVars,
                   errVars>>
    /\ sec_isInitialized' = TRUE
    /\ groupKey' = SubSeq(default_key, 1, 32)
    /\ <<sec_isInitialized, groupKey>>' # <<sec_isInitialized, groupKey>>
    /\ UNCHANGED <<n_pc, out_msg, tcp, g_network_status, n_last,
                   g_contact_list, g_peer_link_stats, in_last, in_discarded>>

\* the keys a caller can hand to setGroupKey: empty, too short, too long
\* and of the right size
Fill(n, b) == [i \in 1..n |-> b]
NewKeys == {<<>>, Fill(16, 1), Fill(31, 1), Fill(32, 1), Fill(32, 2),
            Fill(33, 1)}

\* a check that lets every key of 32 bytes or more pass
ValidKeySize_AtLeast(new_key) == Len(new_key) >= 32
\* setGroupKey: "Invalid key size. Must be 32 bytes."
ValidKeySize(new_key) == Len(new_key) = 32

NoKeyCall == [called |-> FALSE, new_key |-> <<>>]
KeyIdle == sec_last = NoKeyCall

\* SecurityManager::setGroupKey: a key of another size is refused and the
\* group key stays as it is
setGroupKey ==
    /\ \E new_key \in NewKeys :
         /\ sec_last' = [called |-> TRUE, new_key |-> new_key]
         /\ groupKey' = IF ValidKeySize(new_key) THEN new_key ELSE groupKey
    /\ sec_last' # sec_last
    /\ UNCHANGED <<n_pc, out_msg, tcp, g_network_status, n_last,
                   g_contact_list, g_peer_link_stats, sec_isInitialized,
                   in_last, in_discarded>>
    /\ UNCHANGED <<meshVars, queueVars, retryVars, backoffVars, errVars,
                   keyRest>>

\* SecurityManager::processGroupKeyShare and SecurityManager::decrypt: both
\* fail when the manager is not initialized and succeed otherwise
processGroupKeyShare == sec_isInitialized
decrypt == sec_isInitialized

\* the path handle_incoming_packet takes for a buffer
PacketOutcome(kind) ==
    IF kind = "malformed" THEN "unpack_failed"
    ELSE CASE kind = "node_info" -> "node_info"
           [] kind = "encrypted" ->
                IF processGroupKeyShare THEN "key_share"
                ELSE IF decrypt THEN "decrypted"
                ELSE "decrypt_failed"
           [] OTHER -> "unhandled"

\* the shared data handle_incoming_packet could write
SharedData == [contacts |-> g_contact_list, links |-> g_peer_link_stats,
               key |-> groupKey, queues |-> queue]

\* a handler that notes the sender as a contact before looking at the packet
HandlerWrites_NotesSender(outcome, shared) ==
    [shared EXCEPT !.contacts =
        Append(@, [callsign |-> Len(@) + 1, node_id |-> "",
                   ipAddress |-> "sender"])]

\* the shared data after handle_incoming_packet: no path of the handler
\* writes any of it (the NodeInfo case is empty, the SecurityManager calls
\* do not store anything)
HandlerWrites(outcome, shared) == shared

\* the inner packet handle_incoming_packet dispatches after a successful
\* decrypt: none, the plaintext is only logged ("We would need to
\* deserialize it into another AirComPacket and process it")
InnerDispatch(outcome) == "none"

\* the nodes a HealthCheckResponse can come from, the sent_timestamp_ms it
\* echoes and the esp_log_timestamp() values at which it is handled
ResponseSenders == {"B", "C"}
SentTimes == {60, 95}
RecvTimes == {100, 130}

\* tcp_server_task received a buffer and passed it to handle_incoming_packet
handle_incoming_packet ==
    /\ UNCHANGED <<taskVars, meshVars, retryVars, backoffVars, errVars>>
    /\ \E kind \in PacketKinds, from \in ResponseSenders,
          sent \in SentTimes, at \in RecvTimes :
         LET outcome == PacketOutcome(kind)
             after == HandlerWrites(outcome, SharedData)
             discarded == outcome \in {"unpack_failed", "decrypt_failed"}
             hr == kind = "health_response"
         IN  /\ discarded => in_discarded < MaxPackets
             /\ in_last' = [kind |-> kind, outcome |-> outcome,
                             inner |-> InnerDispatch(outcome),
                             from |-> IF hr THEN from ELSE "none",
                             sent |-> IF hr THEN sent ELSE 0,
                             at |-> IF hr THEN at ELSE 0]
             /\ in_discarded' = in_discarded + (IF discarded THEN 1 ELSE 0)
             /\ g_contact_list' = after.contacts
             /\ g_peer_link_stats' = after.links
             /\ groupKey' = after.key
             /\ queue' = after.queues
    /\ <<in_last, in_discarded>>' # <<in_last, in_discarded>>
    /\ UNCHANGED <<enq, deq, nextItem, qpc, cur>>
    /\ UNCHANGED <<n_pc, out_msg, tcp, g_network_status, n_last,
                   sec_isInitialized>>

\* ------------------------------------------------------------------------
\* Message encryption (main/crypto.cpp over
\* components/libsodium/src/libsodium/sodium/core.c)
\* ------------------------------------------------------------------------
crypto_secretbox_KEYBYTES == 32
crypto_secretbox_NONCEBYTES == 24
crypto_secretbox_MACBYTES == 16
\* the keystream comes in blocks of 64 bytes
CHACHA_BLOCK == 64

\* a uint32_t is kept as its two 16-bit halves <<high, low>>
W16 == 65536

RECURSIVE XorBits(_, _, _)
XorBits(a, b, n) ==
    IF n = 0 THEN 0
    ELSE ((a + b) % 2) + 2 * XorBits(a \div 2, b \div 2, n - 1)

\* ^ on bytes, worked out once for every pair of bytes
XorTable == [a \in 0..255 |-> [b \in 0..255 |-> XorBits(a, b, 8)]]

\* ^ on bytes, on 16-bit halves and on uint32_t
Xor8(a, b) == XorTable[a][b]
Xor16(a, b) ==
    (XorTable[a \div 256][b \div 256] * 256) + XorTable[a % 256][b % 256]
Xor32(x, y) == <<Xor16(x[1], y[1]), Xor16(x[2], y[2])>>

\* + on uint32_t (modulo 2^32)
Add32(x, y) ==
    LET lo == x[2] + y[2]
    IN  <<(x[1] + y[1] + (lo \div W16)) % W16, lo % W16>>

\* ROTL32(x, n) for the rotations the quarter round uses (16, 12, 8, 7)
ROTL32(x, n) ==
    IF n = 16 THEN <<x[2], x[1]>>
    ELSE <<((x[1] * 2^n) % W16) + (x[2] \div 2^(16 - n)),
           ((x[2] * 2^n) % W16) + (x[1] \div 2^(16 - n))>>

\* the QR macro applied to the words a, b, c, d of x (indices from 1)
QR(x, a, b, c, d) ==
    LET a1 == Add32(x[a], x[b])
        d1 == ROTL32(Xor32(x[d], a1), 16)
        c1 == Add32(x[c], d1)
        b1 == ROTL32(Xor32(x[b], c1), 12)
        a2 == Add32(a1, b1)
        d2 == ROTL32(Xor32(d1, a2), 8)
        c2 == Add32(c1, d2)
        b2 == ROTL32(Xor32(b1, c2), 7)
    IN  [x EXCEPT ![a] = a2, ![b] = b2, ![c] = c2, ![d] = d2]

\* F applied to the value of v: an intermediate result of the C code is
\* worked out once and then used, as a local variable is
Bind(v, F(_)) == CHOOSE y \in {F(u) : u \in {v}} : TRUE

\* one iteration of the round loop of chacha20_block: four column rounds
\* and four diagonal rounds
DoubleRound(x) ==
    Bind(QR(x, 1, 5, 9, 13), LAMBDA x1 :
    Bind(QR(x1, 2, 6, 10, 14), LAMBDA x2 :
    Bind(QR(x2, 3, 7, 11, 15), LAMBDA x3 :
    Bind(QR(x3, 4, 8, 12, 16), LAMBDA x4 :
    Bind(QR(x4, 1, 6, 11, 16), LAMBDA x5 :
    Bind(QR(x5, 2, 7, 12, 13), LAMBDA x6 :
    Bind(QR(x6, 3, 8, 9, 14), LAMBDA x7 :
    QR(x7, 4, 5, 10, 15))))))))

\* n iterations of the round loop
RECURSIVE Rounds(_, _)
Rounds(x, n) ==
    IF n = 0 THEN x
    ELSE Bind(DoubleRound(x), LAMBDA y : Rounds(y, n - 1))

\* four bytes, lowest first, as a uint32_t
Le32(b0, b1, b2, b3) == <<b3 * 256 + b2, b1 * 256 + b0>>

\* "expand 32-byte k"
sigma == <<101, 120, 112, 97, 110, 100, 32, 51, 50, 45, 98, 121, 116, 101,
           32, 107>>

\* chacha20_init: the constant, the key, a zero counter and the first eight
\* bytes of the nonce; counter is the number of blocks produced before
chacha20_init(key, nonce, counter) ==
    [i \in 1..16 |->
        IF i <= 4
        THEN Le32(sigma[4*i - 3], sigma[4*i - 2], sigma[4*i - 1], sigma[4*i])
        ELSE IF i <= 12
        THEN Le32(key[4*(i-4) - 3], key[4*(i-4) - 2], key[4*(i-4) - 1],
                  key[4*(i-4)])
        ELSE IF i = 13 THEN <<0, counter>>
        ELSE IF i = 14 THEN <<0, 0>>
        ELSE Le32(nonce[4*(i-14) - 3], nonce[4*(i-14) - 2],
                  nonce[4*(i-14) - 1], nonce[4*(i-14)])]

\* chacha20_block: the 64 output bytes of the block for a state
chacha20_block(state) ==
    Bind(SubSeq(state, 1, 16), LAMBDA s :
    Bind(Rounds(s, 10), LAMBDA x :
      [j \in 1..CHACHA_BLOCK |->
          LET w == Add32(x[((j - 1) \div 4) + 1], s[((j - 1) \div 4) + 1])
              k == (j - 1) % 4
          IN  IF k = 0 THEN w[2] % 256
              ELSE IF k = 1 THEN w[2] \div 256
              ELSE IF k = 2 THEN w[1] % 256
              ELSE w[1] \div 256]))

\* the "Generate keystream blocks" loop: one block for every started 64
\* bytes of len, of which the first len bytes are those the caller reads
RECURSIVE KeystreamBlocks(_, _, _, _)
KeystreamBlocks(key, nonce, counter, blocks) ==
    IF counter = blocks THEN <<>>
    ELSE chacha20_block(chacha20_init(key, nonce, counter))
           \o KeystreamBlocks(key, nonce, counter + 1, blocks)

keystream(key, nonce, len) ==
    SubSeq(KeystreamBlocks(key, nonce, 0, (len + CHACHA_BLOCK - 1) \div CHACHA_BLOCK),
           1, len)

\* ^ over the first n bytes of a sequence
RECURSIVE XorUpTo(_, _)
XorUpTo(s, n) == IF n = 0 THEN 0 ELSE Xor8(s[n], XorUpTo(s, n - 1))

\* ^ over the bytes of a sequence
XorAll(s) == XorUpTo(s, Len(s))

\* the bytes the MAC loops run over: i < mlen && i < 16
MacSpan(mlen) == IF mlen < 16 THEN mlen ELSE 16

\* crypto_secretbox_easy: c is 16 equal MAC bytes, the XOR of the first
\* bytes of the encrypted message, followed by m ^ keystream
crypto_secretbox_easy(m, n, k) ==
    Bind(keystream(k, n, Len(m) + crypto_secretbox_MACBYTES), LAMBDA ks :
    Bind(SubSeq([i \in 1..Len(m) |-> Xor8(m[i], ks[i])], 1, Len(m)),
         LAMBDA body :
    Bind(XorAll(SubSeq(body, 1, MacSpan(Len(m)))), LAMBDA mac :
      [i \in 1..crypto_secretbox_MACBYTES |-> mac] \o body)))

\* crypto_secretbox_open_easy: the return value and the bytes written to m
crypto_secretbox_open_easy(c, n, k) ==
    IF Len(c) < crypto_secretbox_MACBYTES THEN [ret |-> -1, m |-> <<>>]
    ELSE
      LET mlen == Len(c) - crypto_secretbox_MACBYTES
      IN  Bind(keystream(k, n, mlen), LAMBDA ks :
          Bind(SubSeq([i \in 1..mlen |->
                         Xor8(c[crypto_secretbox_MACBYTES + i], ks[i])],
                      1, mlen), LAMBDA m :
          Bind(XorAll([i \in 1..MacSpan(mlen) |-> Xor8(m[i], ks[i])]),
               LAMBDA expected_mac :
            [ret |-> IF \A i \in 1..crypto_secretbox_MACBYTES :
                          c[i] = expected_mac
                     THEN 0 ELSE -1,
             m |-> m])))

\* encrypt_message: [NONCE][CIPHERTEXT]
EncryptedPayload(plaintext, nonce, key) ==
    nonce \o crypto_secretbox_easy(plaintext, nonce, key)

\* decrypt_message: the string returned, empty for a payload that is too
\* short or that crypto_secretbox_open_easy rejects
DecryptedString(payload, key) ==
    IF Len(payload) < crypto_secretbox_NONCEBYTES + crypto_secretbox_MACBYTES
    THEN <<>>
    ELSE Bind(crypto_secretbox_open_easy(
                  SubSeq(payload, crypto_secretbox_NONCEBYTES + 1,
                         Len(payload)),
                  SubSeq(payload, 1, crypto_secretbox_NONCEBYTES), key),
              LAMBDA r : IF r.ret # 0 THEN <<>> ELSE r.m)

\* what randombytes_buf is seen to deliver for a key and for a nonce
RandomKeys == {[i \in 1..crypto_secretbox_KEYBYTES |-> i],
               [i \in 1..crypto_secretbox_KEYBYTES |-> 255 - i]}
RandomNonces == {[i \in 1..crypto_secretbox_NONCEBYTES |-> 0],
                 [i \in 1..crypto_secretbox_NONCEBYTES |-> 199 + i]}

\* the plaintexts: every string of 'A' and 'B' up to MaxPlainLen bytes, and
\* one that is longer than the bytes the MAC covers
LongText == [i \in 1..LongTextLen |-> 65]
PlainTexts ==
    UNION {[1..n -> {65, 66}] : n \in 0..MaxPlainLen} \cup {LongText}

\* the bits a corrupted byte differs in
Masks == {1, 128}

\* chacha20_block writes 64 bytes whatever is left of the buffer: a buffer
\* whose length is not a multiple of 64 is overrun, after which the call
\* may go on as written or the task may die on the damaged heap
BlockOutcomes(len) ==
    IF len % CHACHA_BLOCK = 0 THEN {"ok"} ELSE {"ok", "crash"}

NoDec == [called |-> FALSE, text |-> <<>>]

CryptoIdle ==
    /\ c_pc = "run"
    /\ key_initialized = FALSE
    /\ session_key = <<>>
    /\ plain = <<>>
    /\ wire = <<>>
    /\ rx = <<>>
    /\ rx_pos = 0
    /\ dec = NoDec

\* get_session_key: the key is generated on the first use
get_session_key(fresh) == IF key_initialized THEN session_key ELSE fresh

\* the keys get_session_key can return
SessionKeys == IF key_initialized THEN {session_key} ELSE RandomKeys

\* uiTask encrypts a packed message: encrypt_message(plaintext); malloc may
\* return NULL, and then the payload is empty (one message is followed from
\* its encryption to its decryption)
encrypt_message ==
    /\ UNCHANGED <<meshVars, queueVars, retryVars, backoffVars, errVars,
                   netVars, cryptoRest>>
    /\ c_pc = "run"
    /\ wire = <<>>
    /\ ~dec.called
    /\ \E plaintext \in PlainTexts, nonce \in RandomNonces,
          fresh \in SessionKeys :
         LET key == get_session_key(fresh)
         IN  /\ key_initialized' = TRUE
             /\ session_key' = key
             /\ \E outcome \in
                     BlockOutcomes(Len(plaintext) + crypto_secretbox_MACBYTES)
                       \cup {"nomem"} :
                  IF outcome = "crash"
                  THEN /\ c_pc' = "crashed"
                       /\ UNCHANGED <<plain, wire>>
                  ELSE /\ c_pc' = c_pc
                       /\ plain' = plaintext
                       /\ wire' = IF outcome = "nomem" THEN <<>>
                                  ELSE EncryptedPayload(plaintext, nonce, key)
    /\ rx' = <<>>
    /\ rx_pos' = 0
    /\ dec' = NoDec

\* tcp_server_task received the payload, as it was sent or with one byte
\* changed on the way, and calls decrypt_message(received_data); the key is
\* fetched once the payload has passed the length test
decrypt_message ==
    /\ UNCHANGED <<meshVars, queueVars, retryVars, backoffVars, errVars,
                   netVars, cryptoRest>>
    /\ c_pc = "run"
    /\ ~dec.called
    /\ \E pos \in 0..Len(wire), mask \in Masks, fresh \in SessionKeys :
         LET payload == IF pos = 0 THEN wire
                        ELSE [wire EXCEPT ![pos] = Xor8(@, mask)]
             mlen == Len(payload) - crypto_secretbox_NONCEBYTES
                       - crypto_secretbox_MACBYTES
             key == IF mlen >= 0 THEN get_session_key(fresh) ELSE session_key
         IN  /\ rx' = payload
             /\ rx_pos' = pos
             /\ key_initialized' = (key_initialized \/ mlen >= 0)
             /\ session_key' = key
             /\ \E outcome \in (IF mlen > 0
                                THEN BlockOutcomes(mlen) \cup {"nomem"}
                                ELSE {"ok"}) :
                  IF outcome = "crash"
                  THEN c_pc' = "crashed" /\ dec' = dec
                  ELSE /\ c_pc' = c_pc
                       /\ dec' = [called |-> TRUE,
                                  text |-> IF outcome = "nomem" THEN <<>>
                                           ELSE DecryptedString(payload, key)]
    /\ UNCHANGED <<plain, wire>>

\* ------------------------------------------------------------------------
\* Packet codec (components/aircom_proto/AirCom.pb-c.h declares
\* air_com_packet__pack and air_com_packet__unpack; the wire format is the
\* length-prefixed, tag-dispatched serialization of the specification)
\* ------------------------------------------------------------------------
AIR_COM_PACKET__PAYLOAD_VARIANT_NODE_INFO == 1
AIR_COM_PACKET__PAYLOAD_VARIANT_TEXT_MESSAGE == 2
AIR_COM_PACKET__PAYLOAD_VARIANT_NETWORK_HEALTH == 3
AIR_COM_PACKET__PAYLOAD_VARIANT_COT_MESSAGE == 4
AIR_COM_PACKET__PAYLOAD_VARIANT_HEALTH_REQUEST == 5
AIR_COM_PACKET__PAYLOAD_VARIANT_HEALTH_RESPONSE == 6
AIR_COM_PACKET__PAYLOAD_VARIANT_ENCRYPTED_PACKET == 7

VariantTags == AIR_COM_PACKET__PAYLOAD_VARIANT_NODE_INFO
                 .. AIR_COM_PACKET__PAYLOAD_VARIANT_ENCRYPTED_PACKET

\* the fields of each variant, in order: NodeInfo{callsign, node_id},
\* TextMessage{text}, NetworkHealth{rssi, snr}, CotMessage{xml},
\* HealthCheckRequest{sent_at}, HealthCheckResponse{echoed_at, rssi},
\* EncryptedEnvelope{nonce, ciphertext}
Layout(tag) ==
    CASE tag = AIR_COM_PACKET__PAYLOAD_VARIANT_NODE_INFO -> <<"str", "str">>
      [] tag = AIR_COM_PACKET__PAYLOAD_VARIANT_TEXT_MESSAGE -> <<"str">>
      [] tag = AIR_COM_PACKET__PAYLOAD_VARIANT_NETWORK_HEALTH -> <<"i8", "i8">>
      [] tag = AIR_COM_PACKET__PAYLOAD_VARIANT_COT_MESSAGE -> <<"str">>
      [] tag = AIR_COM_PACKET__PAYLOAD_VARIANT_HEALTH_REQUEST -> <<"u16">>
      [] tag = AIR_COM_PACKET__PAYLOAD_VARIANT_HEALTH_RESPONSE -> <<"u16", "i8">>
      [] tag = AIR_COM_PACKET__PAYLOAD_VARIANT_ENCRYPTED_PACKET -> <<"str", "str">>

\* the values a field of each type takes in the model: short strings,
\* signal levels, timestamps
FieldValues(type) ==
    CASE type = "str" -> {<<>>, <<78, 55>>}
      [] type = "i8" -> {-70, 5}
      [] type = "u16" -> {0, 1000}

NodeIds == {<<65>>, <<78, 55>>}

\* every tuple of field values for a layout
RECURSIVE FieldTuples(_)
FieldTuples(layout) ==
    IF layout = <<>> THEN {<<>>}
    ELSE {<<v>> \o rest : v \in FieldValues(Head(layout)),
                          rest \in FieldTuples(Tail(layout))}

\* the valid packets: one variant each, to_node absent (<<>>) or one node
\* id (<<id>>)
ValidPackets ==
    UNION {[from_node : NodeIds,
            to_node : {<<>>} \cup {<<n>> : n \in NodeIds},
            tag : {t},
            fields : FieldTuples(Layout(t))] : t \in VariantTags}

\* a signed byte read as unsigned
DecodeI8_Unsigned(b) == b

\* a signed byte on the wire and back
EncodeI8(v) == (v + 256) % 256
DecodeI8(b) == IF b >= 128 THEN b - 256 ELSE b

\* one field on the wire: a string with its length in front, a signed byte,
\* a 16-bit value low byte first
EncodeField(type, v) ==
    CASE type = "str" -> <<Len(v)>> \o v
      [] type = "i8" -> <<EncodeI8(v)>>
      [] type = "u16" -> <<v % 256, v \div 256>>

RECURSIVE EncodeFields(_, _)
EncodeFields(layout, vals) ==
    IF layout = <<>> THEN <<>>
    ELSE EncodeField(Head(layout), Head(vals))
           \o EncodeFields(Tail(layout), Tail(vals))

\* air_com_packet__get_packed_size and air_com_packet__pack: the length of
\* the body, then from_node, the to_node option, the variant tag and the
\* fields of the variant
PackedBody(p) ==
    EncodeField("str", p.from_node)
      \o (IF p.to_node = <<>> THEN <<0>>
          ELSE <<1>> \o EncodeField("str", p.to_node[1]))
      \o <<p.tag>>
      \o EncodeFields(Layout(p.tag), p.fields)

air_com_packet__get_packed_size(p) == Len(PackedBody(p)) + 1

air_com_packet__pack(p) == <<Len(PackedBody(p))>> \o PackedBody(p)

\* reading one field at index i of b: whether it is all there, its value,
\* the index after it
ReadFail == [ok |-> FALSE, val |-> 0, next |-> 0]

ReadField(type, b, i) ==
    CASE type = "str" ->
           IF i > Len(b) \/ i + b[i] > Len(b) THEN ReadFail
           ELSE [ok |-> TRUE, val |-> SubSeq(b, i + 1, i + b[i]),
                 next |-> i + b[i] + 1]
      [] type = "i8" ->
           IF i > Len(b) THEN ReadFail
           ELSE [ok |-> TRUE, val |-> DecodeI8(b[i]), next |-> i + 1]
      [] type = "u16" ->
           IF i + 1 > Len(b) THEN ReadFail
           ELSE [ok |-> TRUE, val |-> b[i] + 256 * b[i + 1], next |-> i + 2]

RECURSIVE ReadFields(_, _, _)
ReadFields(layout, b, i) ==
    IF layout = <<>> THEN [ok |-> TRUE, val |-> <<>>, next |-> i]
    ELSE LET f == ReadField(Head(layout), b, i)
         IN  IF ~f.ok THEN ReadFail
             ELSE LET r == ReadFields(Tail(layout), b, f.next)
                  IN  IF ~r.ok THEN ReadFail
                      ELSE [ok |-> TRUE, val |-> <<f.val>> \o r.val,
                            next |-> r.next]

\* air_com_packet__unpack: NULL (ok FALSE) for a buffer that is truncated,
\* has bytes left over or carries an unknown variant tag
UnpackNull == [ok |-> FALSE, packet |-> <<>>]

air_com_packet__unpack(b) ==
    IF b = <<>> \/ b[1] # Len(b) - 1 THEN UnpackNull
    ELSE
      LET from == ReadField("str", b, 2)
          flag == IF from.ok /\ from.next <= Len(b) THEN b[from.next] ELSE 2
          to == IF flag = 1 THEN ReadField("str", b, from.next + 1)
                ELSE [ok |-> flag = 0, val |-> <<>>, next |-> from.next + 1]
          tag == IF to.ok /\ to.next <= Len(b) THEN b[to.next] ELSE 0
          fs == IF tag \in VariantTags
                THEN ReadFields(Layout(tag), b, to.next + 1)
                ELSE ReadFail
      IN  IF fs.ok /\ fs.next = Len(b) + 1
          THEN [ok |-> TRUE,
                packet |-> [from_node |-> from.val,
                            to_node |-> IF flag = 1 THEN <<to.val>> ELSE <<>>,
                            tag |-> tag,
                            fields |-> fs.val]]
          ELSE UnpackNull

NoUnpack == [called |-> FALSE, ok |-> FALSE, packet |-> <<>>]

CodecIdle ==
    /\ cd_pkt = <<>>
    /\ cd_bytes = <<>>
    /\ cd_out = NoUnpack

\* a task serializes a packet: air_com_packet__pack(&packet, buffer)
codecPack ==
    /\ UNCHANGED <<meshVars, queueVars, retryVars, backoffVars, errVars,
                   netVars, codecRest>>
    /\ \E p \in ValidPackets :
         /\ cd_pkt' = p
         /\ cd_bytes' = air_com_packet__pack(p)
    /\ cd_pkt' # cd_pkt
    /\ cd_out' = NoUnpack

\* the receiver gets the buffer, whole or cut short, and decodes it:
\* air_com_packet__unpack(NULL, len, data)
codecUnpack ==
    /\ UNCHANGED <<meshVars, queueVars, retryVars, backoffVars, errVars,
                   netVars, codecRest>>
    /\ cd_bytes # <<>>
    /\ ~cd_out.called
    /\ \E len \in {Len(cd_bytes) - 1, Len(cd_bytes)} :
         LET r == air_com_packet__unpack(SubSeq(cd_bytes, 1, len))
         IN  /\ cd_out' = [called |-> TRUE, ok |-> r.ok, packet |-> r.packet]
             /\ cd_bytes' = SubSeq(cd_bytes, 1, len)
    /\ UNCHANGED cd_pkt

\* ------------------------------------------------------------------------
\* Status updates for the UI (main/gps_task.cpp, main/network_task.cpp,
\* main/ui_task.cpp)
\* ------------------------------------------------------------------------
\* the value that stands for "no change" in a ui_update_t
NO_CHANGE == 255

\* conversion of an int to bool, and of a bool to int in a comparison
ToBool(x) == x # 0
BoolAsInt(b) == IF b THEN 1 ELSE 0

\* ui_update_t as each task builds it
GpsUpdate(current_valid_state) ==
    [has_gps_lock |-> current_valid_state, contact_count |-> NO_CHANGE]
NetUpdate(nodes) ==
    [has_gps_lock |-> ToBool(NO_CHANGE), contact_count |-> Len(nodes) % 256]

\* xQueueSend(ui_update_queue, &update, 0): the update is lost when the
\* queue is full
UiQueueSend(q, update, origin) ==
    IF Len(q) < QueueCap
    THEN Append(q, [update |-> update, origin |-> origin])
    ELSE q

UiIdle ==
    /\ ui_updates = <<>>
    /\ gps_lock_status = FALSE
    /\ team_contact_count = 0
    /\ last_valid_state = FALSE

\* gps_task parsed a sentence: an update is sent when the validity changed
gpsPublish ==
    /\ UNCHANGED <<meshVars, queueVars, retryVars, backoffVars, errVars,
                   netVars, uiRest>>
    /\ \E current_valid_state \in BOOLEAN :
         /\ current_valid_state # last_valid_state
         /\ last_valid_state' = current_valid_state
         /\ ui_updates' = UiQueueSend(ui_updates,
                                      GpsUpdate(current_valid_state),
                                      "gps_task")
    /\ UNCHANGED <<gps_lock_status, team_contact_count>>

\* networkTask, after the contact list update: the contact count is sent
netPublishUi ==
    /\ UNCHANGED <<meshVars, queueVars, retryVars, backoffVars, errVars,
                   netVars, uiRest>>
    /\ \E nodes \in DiscoveredNodes :
         ui_updates' = UiQueueSend(ui_updates, NetUpdate(nodes), "networkTask")
    /\ ui_updates' # ui_updates
    /\ UNCHANGED <<gps_lock_status, team_contact_count, last_valid_state>>

\* uiTask, start of a frame: one update is taken from the queue and applied
uiReceiveUpdate ==
    /\ UNCHANGED <<meshVars, queueVars, retryVars, backoffVars, errVars,
                   netVars, uiRest>>
    /\ ui_updates # <<>>
    /\ LET update == Head(ui_updates).update
       IN  /\ team_contact_count' =
                IF update.contact_count # NO_CHANGE
                THEN update.contact_count ELSE team_contact_count
           /\ gps_lock_status' =
                IF BoolAsInt(update.has_gps_lock) # NO_CHANGE
                THEN update.has_gps_lock ELSE gps_lock_status
    /\ ui_updates' = Tail(ui_updates)
    /\ UNCHANGED last_valid_state

\* ------------------------------------------------------------------------
\* The contact-list mutex and the health task (main/network_health_task.cpp,
\* networkTask step 4 in main/network_task.cpp, the contact screen of
\* main/ui_task.cpp)
\* ------------------------------------------------------------------------
MUTEX_TIMEOUT_DEFAULT == 500

\* the tasks that take g_contact_list_mutex
LockTasks == {"network_health_task", "networkTask", "uiTask"}

\* what the UI task takes the mutex for: drawing the contact screen, moving
\* the selection, choosing a contact, sending the typed message
UiOps == {"draw", "down", "select", "send"}

\* the block time each xSemaphoreTake(g_contact_list_mutex, ...) is given
TakeTimeout(task, op) ==
    CASE task = "network_health_task" -> portMAX_DELAY
      [] task = "networkTask"         -> MUTEX_TIMEOUT_DEFAULT
      [] task = "uiTask"              ->
           IF op \in {"draw", "send"} THEN 10 ELSE 5

\* a task that goes on into the list although xSemaphoreTake failed
EntersSection_Regardless(taken) == TRUE
\* "if (xSemaphoreTake(g_contact_list_mutex, ...) == pdTRUE)": the code
\* that reads or writes g_contact_list runs only when the take succeeded
EntersSection(taken) == taken

\* the task is at a statement that reads or writes g_contact_list
Accessing(task) ==
    CASE task = "network_health_task" -> h_pc \in {"loop", "send"}
      [] task = "networkTask"         -> n_step = "update"
      [] task = "uiTask"              -> u_pc \in UiOps

NoUiOp == [op |-> "none", taken |-> FALSE]

HealthIdle ==
    /\ g_contact_list_mutex = "free"
    /\ h_pc = "delay"
    /\ h_i = 0
    /\ h_log = <<>>
    /\ contact_age = 0
    /\ n_step = "contacts"
    /\ n_nodes = <<>>
    /\ n_taken = TRUE
    /\ u_pc = "idle"
    /\ u_last = NoUiOp

\* the xQueueSend call a task is blocked in or about to make, if any, has a
\* block time other than zero
BlockingSend(task) ==
    CASE task = "network_health_task" ->
           /\ h_pc = "send"
           /\ qpc["helper"] = "sending"
           /\ Timeouts(cur["helper"].site)[cur["helper"].try] # 0
      [] task = "uiTask" ->
           /\ u_pc = "send"
           /\ Timeouts("ui_outgoing")[1] # 0
      [] OTHER -> FALSE

\* network_health_task: vTaskDelay(30 s) is over, a cycle begins
healthWake ==
    /\ h_pc = "delay"
    /\ h_pc' = "take"
    /\ h_log' = <<>>
    /\ UNCHANGED <<g_contact_list_mutex, h_i, contact_age, n_step, n_nodes,
                   n_taken, u_pc, u_last>>
    /\ UNCHANGED <<meshVars, queueVars, retryVars, backoffVars, errVars,
                   netVars, healthRest>>

\* xSemaphoreTake(g_contact_list_mutex, portMAX_DELAY) returns once the
\* mutex is free
healthTake ==
    /\ h_pc = "take"
    /\ g_contact_list_mutex = "free"
    /\ g_contact_list_mutex' = "network_health_task"
    /\ h_pc' = "loop"
    /\ h_i' = 1
    /\ UNCHANGED <<h_log, contact_age, n_step, n_nodes, n_taken, u_pc, u_last>>
    /\ UNCHANGED <<meshVars, queueVars, retryVars, backoffVars, errVars,
                   netVars, healthRest>>

\* the loop body up to the call of send_outgoing_message: the request for
\* the next contact is built and the first xQueueSend begins
healthSendStart ==
    /\ h_pc = "loop"
    /\ h_i <= Len(g_contact_list)
    /\ qpc["helper"] = "idle"
    /\ nextItem <= MaxItems
    /\ cur' = [cur EXCEPT !["helper"] =
                 [site |-> "send_outgoing_message", item |-> nextItem,
                  try |-> 1,
                  remaining |-> Timeouts("send_outgoing_message")[1],
                  blocked |-> 0, ret |-> "none"]]
    /\ nextItem' = nextItem + 1
    /\ qpc' = [qpc EXCEPT !["helper"] = "sending"]
    /\ h_pc' = "send"
    /\ UNCHANGED <<queue, enq, deq>>
    /\ UNCHANGED <<g_contact_list_mutex, h_i, h_log, contact_age, n_step,
                   n_nodes, n_taken, u_pc, u_last>>
    /\ UNCHANGED <<meshVars, retryVars, backoffVars, errVars, netVars,
                   healthRest>>

\* send_outgoing_message has returned: a failure is logged ("Failed to queue
\* health check packet") and the loop goes on with the next contact
healthSendReturn ==
    /\ h_pc = "send"
    /\ qpc["helper"] = "ret"
    /\ h_log' = Append(h_log,
                       [contact |-> h_i,
                        to_node |-> g_contact_list[h_i].node_id,
                        target_ip |-> g_contact_list[h_i].ipAddress,
                        item |-> cur["helper"].item,
                        ret |-> cur["helper"].ret])
    /\ qpc' = [qpc EXCEPT !["helper"] = "idle"]
    /\ cur' = [cur EXCEPT !["helper"] = NoCall]
    /\ h_i' = h_i + 1
    /\ h_pc' = "loop"
    /\ UNCHANGED <<queue, enq, deq, nextItem>>
    /\ UNCHANGED <<g_contact_list_mutex, contact_age, n_step, n_nodes, n_taken,
                   u_pc, u_last>>
    /\ UNCHANGED <<meshVars, retryVars, backoffVars, errVars, netVars,
                   healthRest>>

\* the loop is through: xSemaphoreGive(g_contact_list_mutex)
healthGive ==
    /\ h_pc = "loop"
    /\ h_i > Len(g_contact_list)
    /\ g_contact_list_mutex' = "free"
    /\ h_pc' = "prune"
    /\ UNCHANGED <<h_i, h_log, contact_age, n_step, n_nodes, n_taken, u_pc,
                   u_last>>
    /\ UNCHANGED <<meshVars, queueVars, retryVars, backoffVars, errVars,
                   netVars, healthRest>>

\* step 6 of the cycle, then back to vTaskDelay: the step is a comment
\* ("Placeholder for pruning logic"), no entry is looked at or removed; the
\* contacts in the list have been through one more cycle
healthPrune ==
    /\ h_pc = "prune"
    /\ h_pc' = "delay"
    /\ contact_age' = IF g_contact_list = <<>> THEN 0
                      ELSE IF contact_age > StaleCycles THEN contact_age
                      ELSE contact_age + 1
    /\ UNCHANGED <<g_contact_list_mutex, h_i, h_log, n_step, n_nodes,
                   n_taken, u_pc, u_last>>
    /\ UNCHANGED <<meshVars, queueVars, retryVars, backoffVars, errVars,
                   netVars, healthRest>>

\* networkTask, step 4: getMeshNodes(), then the mutex is obtained
netStepContacts ==
    /\ n_step = "contacts"
    /\ g_contact_list_mutex = "free"
    /\ \E nodes \in DiscoveredNodes : n_nodes' = nodes
    /\ n_taken' = TRUE
    /\ g_contact_list_mutex' = "networkTask"
    /\ n_step' = "update"
    /\ UNCHANGED <<h_pc, h_i, h_log, contact_age, u_pc, u_last>>
    /\ UNCHANGED <<meshVars, queueVars, retryVars, backoffVars, errVars,
                   netVars, healthRest>>

\* networkTask, step 4 under the mutex: the list is cleared and rebuilt
\* from the nodes, the mutex is given back
netStepContactsGive ==
    /\ n_step = "update"
    /\ g_contact_list' = ContactsFrom(n_nodes)
    /\ contact_age' = IF n_nodes = <<>> THEN 0 ELSE contact_age
    /\ g_contact_list_mutex' = "free"
    /\ n_step' = "publish"
    /\ UNCHANGED <<n_pc, out_msg, tcp, g_network_status, n_last, inboundVars>>
    /\ UNCHANGED <<h_pc, h_i, h_log, n_nodes, n_taken, u_pc, u_last>>
    /\ UNCHANGED <<meshVars, queueVars, retryVars, backoffVars, errVars,
                   healthRest>>

\* a loop that tries step 4 again until it gets the mutex
AfterTimeout_TryAgain == "contacts"
\* the else branch of the take logs the failure and falls through to the UI
\* update and the dequeue
AfterTimeout == "publish"

\* networkTask, step 4 with the mutex held by another task for 500 ms:
\* "Failed to get contact list mutex within timeout", the list stays
netStepContactsTimeout ==
    /\ n_step = "contacts"
    /\ g_contact_list_mutex # "free"
    /\ \E nodes \in DiscoveredNodes : n_nodes' = nodes
    /\ n_taken' = FALSE
    /\ n_step' = AfterTimeout
    /\ UNCHANGED <<g_contact_list_mutex, h_pc, h_i, h_log, contact_age, u_pc,
                   u_last>>
    /\ UNCHANGED <<meshVars, queueVars, retryVars, backoffVars, errVars,
                   netVars, healthRest>>

\* networkTask: the contact count is sent to the UI with no block time
netStepPublish ==
    /\ n_step = "publish"
    /\ ui_updates' = UiQueueSend(ui_updates, NetUpdate(n_nodes), "networkTask")
    /\ n_step' = "dequeue"
    /\ UNCHANGED <<gps_lock_status, team_contact_count, last_valid_state>>
    /\ UNCHANGED <<g_contact_list_mutex, h_pc, h_i, h_log, contact_age,
                   n_nodes, n_taken, u_pc, u_last>>
    /\ UNCHANGED <<meshVars, queueVars, retryVars, backoffVars, errVars,
                   netVars, cryptoVars, codecVars, keyVars, cbVars,
                   ipVars>>

\* networkTask: one outgoing message, if there is one, is taken from the
\* queue for send_tcp_message_default; then vTaskDelay(100 ms)
netStepDequeue ==
    /\ n_step = "dequeue"
    /\ IF queue["outgoing_message"] # <<>>
       THEN /\ deq' = [deq EXCEPT !["outgoing_message"] =
                  Append(@, xQueueReceive(queue["outgoing_message"]).item)]
            /\ queue' = [queue EXCEPT !["outgoing_message"] =
                  xQueueReceive(queue["outgoing_message"]).rest]
       ELSE UNCHANGED <<queue, deq>>
    /\ n_step' = "contacts"
    /\ UNCHANGED <<enq, nextItem, qpc, cur>>
    /\ UNCHANGED <<g_contact_list_mutex, h_pc, h_i, h_log, contact_age,
                   n_nodes, n_taken, u_pc, u_last>>
    /\ UNCHANGED <<meshVars, retryVars, backoffVars, errVars, netVars,
                   healthRest>>

\* uiTask: xSemaphoreTake(g_contact_list_mutex, 5 or 10 ticks) succeeds
uiTake(op) ==
    /\ u_pc = "idle"
    /\ g_contact_list_mutex = "free"
    /\ u_pc' = op
    /\ u_last' = [op |-> op, taken |-> TRUE]
    /\ g_contact_list_mutex' = "uiTask"
    /\ UNCHANGED <<h_pc, h_i, h_log, contact_age, n_step, n_nodes, n_taken>>
    /\ UNCHANGED <<meshVars, queueVars, retryVars, backoffVars, errVars,
                   netVars, healthRest>>

\* uiTask: the mutex is not obtained within the ticks given; the key press
\* has no effect (a typed message is dropped, the screen shows "Loading...")
\* and the frame goes on
uiTakeTimeout(op) ==
    /\ u_pc = "idle"
    /\ g_contact_list_mutex # "free"
    /\ u_last' = [op |-> op, taken |-> FALSE]
    /\ u_pc' = IF EntersSection(FALSE) THEN op ELSE "idle"
    /\ u_last' # u_last
    /\ UNCHANGED <<g_contact_list_mutex, h_pc, h_i, h_log, contact_age, n_step,
                   n_nodes, n_taken>>
    /\ UNCHANGED <<meshVars, queueVars, retryVars, backoffVars, errVars,
                   netVars, healthRest>>

\* uiTask under the mutex: the list is read; for a message to a contact
\* xQueueSend(outgoing_message_queue, &out_msg, 0) is called; the mutex is
\* given back
uiGive ==
    /\ u_pc \in UiOps
    /\ IF u_pc = "send" /\ g_contact_list # <<>>
       THEN /\ nextItem <= MaxItems
            /\ queue' = [queue EXCEPT !["outgoing_message"] =
                           xQueueSend(@, nextItem)]
            /\ enq' = [enq EXCEPT !["outgoing_message"] =
                         IF Len(queue["outgoing_message"]) < QueueCap
                         THEN Append(@, nextItem) ELSE @]
            /\ nextItem' = nextItem + 1
       ELSE UNCHANGED <<queue, enq, nextItem>>
    /\ u_pc' = "idle"
    /\ g_contact_list_mutex' =
         IF g_contact_list_mutex = "uiTask" THEN "free"
         ELSE g_contact_list_mutex
    /\ UNCHANGED <<deq, qpc, cur>>
    /\ UNCHANGED <<h_pc, h_i, h_log, contact_age, n_step, n_nodes, n_taken,
                   u_last>>
    /\ UNCHANGED <<meshVars, retryVars, backoffVars, errVars, netVars,
                   healthRest>>

\* ------------------------------------------------------------------------
\* Safe callbacks (main/include/safe_callback.h, main/safe_callback.cpp)
\* ------------------------------------------------------------------------
\* the callbacks HaLowMeshManager::begin creates for its owner id
Handles == {"connection", "data"}
\* calls of wrapped functions that are followed
MaxInvocations == 2

CallbackIdle ==
    /\ created = {}
    /\ m_valid = [h \in Handles |-> FALSE]
    /\ m_callbacks = {}
    /\ ownerAlive = TRUE
    /\ x_pc = [h \in Handles |-> "idle"]
    /\ x_ret = [h \in Handles |-> "none"]
    /\ invocations = <<>>

\* what xSemaphoreTake(m_mutex, pdMS_TO_TICKS(100)) may return
MutexTaken == BOOLEAN

\* CallbackManager::registerCallback
registerCallback(cbs, h, taken) ==
    IF taken THEN cbs \cup {h} ELSE cbs

\* CallbackManager::unregisterCallback
unregisterCallback(cbs, h, taken) ==
    IF taken THEN cbs \ {h} ELSE cbs

\* CallbackManager::invalidateOwnerCallbacks: logs a warning, changes nothing
invalidateOwnerCallbacks(valid) ==
    valid

\* createConnectionCallback / createDataCallback: make_shared, m_valid(true),
\* registerCallback
createCallback(h) ==
    /\ h \notin created
    /\ ownerAlive
    /\ created' = created \cup {h}
    /\ m_valid' = [m_valid EXCEPT ![h] = TRUE]
    /\ \E taken \in MutexTaken :
         m_callbacks' = registerCallback(m_callbacks, h, taken)
    /\ UNCHANGED <<ownerAlive, x_pc, x_ret, invocations>>
    /\ UNCHANGED <<meshVars, queueVars, retryVars, backoffVars, errVars,
                   netVars, cbRest>>

\* SafeCallback::execute, entry: return false if !isValid()
executeCheck(h) ==
    /\ h \in created
    /\ x_pc[h] = "idle"
    /\ Len(invocations) < MaxInvocations
    /\ IF ~m_valid[h]
       THEN /\ x_ret[h] # "false"
            /\ x_ret' = [x_ret EXCEPT ![h] = "false"]
            /\ UNCHANGED x_pc
       ELSE /\ x_pc' = [x_pc EXCEPT ![h] = "invoke"]
            /\ UNCHANGED x_ret
    /\ UNCHANGED <<created, m_valid, m_callbacks, ownerAlive, invocations>>
    /\ UNCHANGED <<meshVars, queueVars, retryVars, backoffVars, errVars,
                   netVars, cbRest>>

\* SafeCallback::execute, the call m_callback(args...): true, or false if the
\* wrapped function threw
executeInvoke(h) ==
    /\ x_pc[h] = "invoke"
    /\ invocations' = Append(invocations,
                             [handle |-> h, valid |-> m_valid[h],
                              owner |-> ownerAlive])
    /\ \E threw \in BOOLEAN :
         x_ret' = [x_ret EXCEPT ![h] = IF threw THEN "false" ELSE "true"]
    /\ x_pc' = [x_pc EXCEPT ![h] = "idle"]
    /\ UNCHANGED <<created, m_valid, m_callbacks, ownerAlive>>
    /\ UNCHANGED <<meshVars, queueVars, retryVars, backoffVars, errVars,
                   netVars, cbRest>>

\* CallbackHandle::invalidate: if (m_valid.exchange(false)) unregisterCallback
invalidate(h) ==
    /\ h \in created
    /\ m_valid[h]
    /\ m_valid' = [m_valid EXCEPT ![h] = FALSE]
    /\ \E taken \in MutexTaken :
         m_callbacks' = unregisterCallback(m_callbacks, h, taken)
    /\ UNCHANGED <<created, ownerAlive, x_pc, x_ret, invocations>>
    /\ UNCHANGED <<meshVars, queueVars, retryVars, backoffVars, errVars,
                   netVars, cbRest>>

\* CallbackOwner::~CallbackOwner: invalidateOwnerCallbacks(m_ownerId)
destroyOwner ==
    /\ ownerAlive
    /\ ownerAlive' = FALSE
    /\ m_valid' = invalidateOwnerCallbacks(m_valid)
    /\ UNCHANGED <<created, m_callbacks, x_pc, x_ret, invocations>>
    /\ UNCHANGED <<meshVars, queueVars, retryVars, backoffVars, errVars,
                   netVars, cbRest>>

\* CallbackManager::cleanupInvalidatedCallbacks: erase the handles that are
\* no longer valid
cleanupInvalidatedCallbacks ==
    /\ \E h \in m_callbacks : ~m_valid[h]
    /\ m_callbacks' = {h \in m_callbacks : m_valid[h]}
    /\ UNCHANGED <<created, m_valid, ownerAlive, x_pc, x_ret, invocations>>
    /\ UNCHANGED <<meshVars, queueVars, retryVars, backoffVars, errVars,
                   netVars, cbRest>>

\* ------------------------------------------------------------------------
\* validate_ip_address (main/network_utils.cpp)
\* ------------------------------------------------------------------------
\* a C string is the sequence of its characters before the terminating NUL
DigitChars == <<"0", "1", "2", "3", "4", "5", "6", "7", "8", "9">>

\* *ip >= '0' && *ip <= '9'
IsDigit(c) == \E k \in 1..10 : DigitChars[k] = c

\* *ip - '0'
DigitValue(c) == (CHOOSE k \in 1..10 : DigitChars[k] = c) - 1

\* the texts between the dots of the strings that are validated: empty, in
\* range, out of range, with leading zeros, with a character that is no
\* digit, and two runs of ten digits (2^31 and 2^32)
SegmentTexts ==
    {<<>>, <<"0">>, <<"2", "5", "5">>, <<"2", "5", "6">>,
     <<"0", "0", "7">>, <<"1", "a">>,
     <<"2", "1", "4", "7", "4", "8", "3", "6", "4", "8">>,
     <<"4", "2", "9", "4", "9", "6", "7", "2", "9", "6">>}

\* most texts a validated string is made of
MaxSegments == 5

\* the texts joined by dots
RECURSIVE Dotted(_)
Dotted(texts) ==
    IF Len(texts) = 1 THEN texts[1]
    ELSE texts[1] \o <<".">> \o Dotted(Tail(texts))

\* the strings validate_ip_address is called with: up to most texts
IpInputs(most) ==
    {Dotted(texts) :
        texts \in UNION {[1..n -> SegmentTexts] : n \in 1..most}}

INT_MAX == 2147483647

\* digits * 10 + d is representable in int
Fits(digits, d) ==
    /\ digits >= -214748364
    /\ digits <= 214748364
    /\ digits = 214748364 => d <= 7

\* digits * 10 + d reduced modulo 2^32 into the range of int, computed on
\* the two 16-bit halves of the two's complement representation
Wrap32(digits, d) ==
    LET u_hi == IF digits >= 0 THEN digits \div 65536
                ELSE 65536 + ((digits - (digits % 65536)) \div 65536)
        u_lo == digits % 65536
        lo10 == u_lo * 10 + d
        hi10 == ((u_hi * 10) + (lo10 \div 65536)) % 65536
    IN  IF hi10 >= 32768 THEN (hi10 - 65536) * 65536 + (lo10 % 65536)
        ELSE hi10 * 65536 + (lo10 % 65536)

\* digits = digits * 10 + (*ip - '0') on an int: when the value does not fit
\* the behaviour is undefined; the build either wraps it in 32 bits or goes
\* on with a value above every bound it is compared with (arithmetic in a
\* wider register)
Accumulate(digits, d) ==
    IF Fits(digits, d) THEN {digits * 10 + d}
    ELSE {Wrap32(digits, d), INT_MAX}

\* the while loop of is_valid_ip_format from character i on, and the return
\* after it: the set of values the call can return
RECURSIVE ScanFrom(_, _, _, _, _)
ScanFrom(ip, i, segments, digits, valid_segment) ==
    IF i > Len(ip)
    THEN {segments = 3 /\ valid_segment /\ digits <= 255}
    ELSE IF IsDigit(ip[i])
    THEN UNION {ScanFrom(ip, i + 1, segments, a, TRUE) :
                  a \in Accumulate(digits, DigitValue(ip[i]))}
    ELSE IF ip[i] = "."
    THEN IF ~valid_segment \/ digits > 255 THEN {FALSE}
         ELSE ScanFrom(ip, i + 1, segments + 1, 0, FALSE)
    ELSE {FALSE}

\* is_valid_ip_format(ip) for a non-null ip
is_valid_ip_format(ip) == ScanFrom(ip, 1, 0, 0, FALSE)

IpIdle ==
    /\ ip_arg = <<>>
    /\ ip_ret = "none"

\* a caller about to validate one of the strings
IpInit ==
    /\ ip_arg \in IpInputs(MaxSegments)
    /\ ip_ret = "none"

\* validate_ip_address(ip) returns is_valid_ip_format(ip)
validate_ip_address ==
    /\ ip_ret = "none"
    /\ \E r \in is_valid_ip_format(ip_arg) :
         ip_ret' = IF r THEN "true" ELSE "false"
    /\ UNCHANGED ip_arg
    /\ UNCHANGED <<meshVars, queueVars, retryVars, backoffVars, errVars,
                   netVars, ipRest>>

\* ------------------------------------------------------------------------
\* Specifications
\* ------------------------------------------------------------------------
\* the idle state of everything outside the mesh manager, the queues and
\* retry_with_backoff
\* the idle state of the tasks whose state is taskVars
TaskIdle == CryptoIdle /\ CodecIdle /\ UiIdle /\ KeyIdle /\ HealthIdle /\ CallbackIdle /\ IpIdle

ExtIdle == BackoffIdle /\ ErrIdle /\ NetIdle /\ TaskIdle

Init == MeshInit /\ QueueInit /\ RetryIdle /\ ExtIdle

\* the mesh manager with preemptible contexts: the UI task, the SDK callback
\* context and the sending tasks interleave at every call into the manager
\* and at every iteration of the flush loop
Next ==
    \/ begin
    \/ sendUdpUnicast
    \/ sendUdpMulticast
    \/ uiReadStatus
    \/ uiToggle
    \/ connectToPeer
    \/ disconnectFromPeer
    \/ handleConnectionEvent
    \/ \E p \in Flushers : flushBegin(p)
    \/ \E p \in Flushers : flushStep(p)
    \/ \E p \in Flushers : flushClear(p)
    \/ \E p \in Flushers : flushReturn(p)

Spec == Init /\ [][Next]_vars

\* the mesh manager used from one context at a time: a handler that has
\* started runs to completion before the next call into the manager
Busy == \E p \in Flushers : pc[p] # "idle"

NextSeq ==
    \/ ~Busy /\ begin
    \/ ~Busy /\ sendUdpUnicast
    \/ ~Busy /\ sendUdpMulticast
    \/ ~Busy /\ uiReadStatus
    \/ uiToggle
    \/ ~Busy /\ connectToPeer
    \/ ~Busy /\ disconnectFromPeer
    \/ handleConnectionEvent
    \/ \E p \in Flushers : flushBegin(p)
    \/ \E p \in Flushers : flushStep(p)
    \/ \E p \in Flushers : flushClear(p)
    \/ \E p \in Flushers : flushReturn(p)

SpecSeq == Init /\ [][NextSeq]_vars

\* the queues with their producers and consumers
NextQueue ==
    \/ \E p \in Producers : qStart(p)
    \/ \E p \in Producers : qSendOk(p)
    \/ \E p \in Producers : qSendWait(p)
    \/ \E p \in Producers : qSendTimeout(p)
    \/ \E p \in Producers : qReturn(p)
    \/ \E ch \in Chans : qReceive(ch)

SpecQueue == Init /\ [][NextQueue]_vars

\* one call of retry_with_backoff for every choice of its arguments
InitRetry ==
    /\ MeshInit /\ QueueInit /\ RetryInit /\ BackoffIdle /\ ErrStatsZero /\ NetIdle
    /\ TaskIdle
    /\ g_stats_mutex = IF g_initialized THEN "free" ELSE "NULL"

NextRetry ==
    \/ retryEnter
    \/ retryAttempt
    \/ retryExit

SpecRetry == InitRetry /\ [][NextRetry]_vars

\* the delays of a retry policy, attempt after attempt
InitBackoff ==
    MeshInit /\ QueueInit /\ RetryIdle /\ BackoffInit /\ ErrIdle /\ NetIdle
    /\ TaskIdle

NextBackoff == backoffNext

SpecBackoff == InitBackoff /\ [][NextBackoff]_vars

\* the error API used by two tasks while time passes
NextErr ==
    \/ error_handling_init
    \/ \E t \in ErrTasks : errReportCall(t)
    \/ \E t \in ErrTasks : errReportUncounted(t)
    \/ \E t \in ErrTasks : errTake(t)
    \/ \E t \in ErrTasks : errReportCounted(t)
    \/ \E t \in ErrTasks : errResetTake(t)
    \/ \E t \in ErrTasks : errReset(t)
    \/ errQuery
    \/ errTick

SpecErr == Init /\ [][NextErr]_vars
\* the error statistics alone: reports of every category and resets from
\* two tasks
NextStats ==
    \/ error_handling_init
    \/ \E t \in ErrTasks, in \in StatsInputs : errReport(t, in)
    \/ \E t \in ErrTasks : errReportUncounted(t)
    \/ \E t \in ErrTasks : errTake(t)
    \/ \E t \in ErrTasks : errReportCounted(t)
    \/ \E t \in ErrTasks : errResetTake(t)
    \/ \E t \in ErrTasks : errReset(t)

SpecStats == Init /\ [][NextStats]_vars

\* error_recover called by one task, before and after error_handling_init
NextRecover ==
    \/ error_handling_init
    \/ error_recover
    \/ error_recover_null

SpecRecover == Init /\ [][NextRecover]_vars

\* the outgoing path: the UI task queues messages, the network task dequeues
\* and sends them, the mesh link comes and goes
NextNet ==
    \/ begin
    \/ connectToPeer
    \/ disconnectFromPeer
    \/ handleConnectionEvent
    \/ \E p \in Flushers : flushBegin(p)
    \/ qStart("ui")
    \/ qSendOk("ui")
    \/ qSendTimeout("ui")
    \/ qReturn("ui")
    \/ qReceive("audio_command")
    \/ netDequeue
    \/ tcpCall
    \/ tcpAttempt
    \/ tcpExit

SpecNet == Init /\ [][NextNet]_vars

\* the inbound path: packets arrive at the TCP server while the UI task
\* queues messages and the network task refreshes the contact list
NextIn ==
    \/ begin
    \/ error_handling_init
    \/ secBegin
    \/ netUpdateContacts
    \/ qStart("ui")
    \/ qSendOk("ui")
    \/ qSendTimeout("ui")
    \/ qReturn("ui")
    \/ handle_incoming_packet

SpecIn == Init /\ [][NextIn]_vars

\* messages are encrypted, changed or not on the way, and decrypted
NextCrypto ==
    \/ encrypt_message
    \/ decrypt_message

SpecCrypto == Init /\ [][NextCrypto]_vars

\* packets are serialized and the buffers decoded
NextCodec ==
    \/ codecPack
    \/ codecUnpack

SpecCodec == Init /\ [][NextCodec]_vars

\* the GPS task and the network task publish updates, the UI task applies
\* them
NextUi ==
    \/ begin
    \/ gpsPublish
    \/ netPublishUi
    \/ uiReceiveUpdate

SpecUi == Init /\ [][NextUi]_vars

\* the group key: the SecurityManager is begun, keys are set and packets
\* arrive at the TCP server
NextSec ==
    \/ secBegin
    \/ setGroupKey
    \/ handle_incoming_packet

SpecSec == Init /\ [][NextSec]_vars

\* the users of the contact list: the health task runs its cycles while the
\* network task runs its loop and the UI task handles key presses
NextHealth ==
    \/ begin
    \/ healthWake
    \/ healthTake
    \/ healthSendStart
    \/ qSendOk("helper")
    \/ qSendWait("helper")
    \/ qSendTimeout("helper")
    \/ healthSendReturn
    \/ healthGive
    \/ healthPrune
    \/ netStepContacts
    \/ netStepContactsGive
    \/ netStepContactsTimeout
    \/ netStepPublish
    \/ netStepDequeue
    \/ \E op \in UiOps : uiTake(op)
    \/ \E op \in UiOps : uiTakeTimeout(op)
    \/ uiGive

SpecHealth == Init /\ [][NextHealth]_vars

\* the steps of each task's loop; a blocked send is seen at the end of its
\* block time only
NetworkLoop ==
    \/ netStepContacts
    \/ netStepContactsGive
    \/ netStepContactsTimeout
    \/ netStepPublish
    \/ netStepDequeue

HealthLoop ==
    \/ healthWake
    \/ healthTake
    \/ healthSendStart
    \/ qSendOk("helper")
    \/ qSendWaitOut("helper")
    \/ qSendTimeout("helper")
    \/ healthSendReturn
    \/ healthGive
    \/ healthPrune

\* the UI task sending typed messages, its one use of the queue
UiLoop == uiTake("send") \/ uiTakeTimeout("send") \/ uiGive

NextHealthFair == begin \/ NetworkLoop \/ HealthLoop \/ UiLoop

\* the same tasks under the FreeRTOS scheduler: every task delays in its
\* loop (vTaskDelay), so each of them runs again and again; a task that is
\* blocked on the mutex or on a full queue is not given a turn by this
SpecHealthFair ==
    /\ Init
    /\ [][NextHealthFair]_vars
    /\ WF_vars(NetworkLoop)
    /\ WF_vars(HealthLoop)
    /\ WF_vars(UiLoop)

\* the safe callbacks: executions on the SDK's task interleave with
\* invalidations and with the destruction of the owner on other tasks
NextCallback ==
    \/ \E h \in Handles : createCallback(h)
    \/ \E h \in Handles : executeCheck(h)
    \/ \E h \in Handles : executeInvoke(h)
    \/ \E h \in Handles : invalidate(h)
    \/ destroyOwner
    \/ cleanupInvalidatedCallbacks

SpecCallback == Init /\ [][NextCallback]_vars
\* validate_ip_address called with each of the strings
InitIp ==
    MeshInit /\ QueueInit /\ RetryIdle /\ BackoffIdle /\ ErrIdle /\ NetIdle
    /\ CryptoIdle /\ CodecIdle /\ UiIdle /\ KeyIdle /\ HealthIdle
    /\ CallbackIdle /\ IpInit

NextIp == validate_ip_address

SpecIp == InitIp /\ [][NextIp]_vars

\* ------------------------------------------------------------------------
\* Properties of the offline cache
\* ------------------------------------------------------------------------
\* the messages a flush has handed to the transport since it began
SentSince(p) == SubSeq(transportLog, logStart[p] + 1, Len(transportLog))

\* C1: in the Disconnected state of an initialized manager, every call of
\* sendUdpUnicast / sendUdpMulticast appends exactly the message of the call
\* (payload, port, destination) at the end of the cache, makes no transport
\* call and returns true, whatever the length of the cache.
C1_CacheWhileDisconnected ==
    [][(lastCall'.seq # lastCall.seq /\ isInitialized /\ ~isConnected)
         => /\ messageCache' = messageCache \o <<lastCall'.msg>>
            /\ transportLog' = transportLog
            /\ lastCall'.ret = TRUE]_vars

\* a send was cached behind an already cached message
C1_Witness ==
    /\ isInitialized /\ ~isConnected
    /\ Len(messageCache) >= 2
    /\ messageCache[Len(messageCache)] = lastCall.msg
    /\ messageCache[1] # lastCall.msg
    /\ lastCall.ret = TRUE
    /\ transportLog = <<>>

\* C2: when a flush that began with the cache m1..mn has gone through its
\* loop, the transport calls it made are exactly those of m1, m2, ..., mn in
\* this order (sendData for a unicast entry, broadcastData for a multicast
\* entry, each with the entry's payload).
C2_ReplayInOrder ==
    \A p \in Flushers :
        pc[p] = "flush_ret" =>
            /\ Len(SentSince(p)) = Len(flushStart[p])
            /\ \A i \in 1..Len(flushStart[p]) :
                 /\ SentSince(p)[i].data = flushStart[p][i].id
                 /\ SentSince(p)[i].peer = flushStart[p][i].destIp
                 /\ SentSince(p)[i].op =
                      (IF flushStart[p][i].isMulticast THEN "broadcastData"
                                                       ELSE "sendData")

\* a flush has replayed a unicast and a multicast entry
C2_Witness ==
    \E p \in Flushers :
        /\ pc[p] = "flush_ret"
        /\ Len(flushStart[p]) >= 2
        /\ \E i, j \in 1..Len(flushStart[p]) :
             flushStart[p][i].isMulticast /\ ~flushStart[p][j].isMulticast

\* the transport call carries the payload and the port of msg
Carries(call, msg) ==
    /\ call.data = msg.id
    /\ "port" \in DOMAIN call
    /\ call.port = msg.port

\* C3 (as claimed): starting Disconnected with an empty cache, one unicast
\* send followed by the switch to Connected makes the transport receive
\* exactly one send call carrying the original payload and port, and leaves
\* the cache empty.
C3_OneSendWithPayloadAndPort ==
    \A p \in Flushers :
        (pc[p] = "flush_ret" /\ Len(flushStart[p]) = 1
           /\ ~flushStart[p][1].isMulticast)
        => /\ Len(SentSince(p)) = 1
           /\ Carries(SentSince(p)[1], flushStart[p][1])
           /\ messageCache = <<>>

\* C4: during a flush the cache is neither cleared nor grown (a rejected
\* message is not re-queued) while messages remain to be attempted, and when
\* sendCachedMessages returns the cache is empty and one transport send has
\* been attempted for every message cached when the flush began.
C4_RejectedDropped ==
    \A p \in Flushers :
        /\ pc[p] = "flush_loop" =>
             /\ messageCache = flushStart[p]
             /\ Len(SentSince(p)) = it[p] - 1
        /\ pc[p] = "flush_ret" =>
             /\ messageCache = <<>>
             /\ Len(SentSince(p)) = Len(flushStart[p])
             /\ \A i \in 1..Len(flushStart[p]) :
                  SentSince(p)[i].data = flushStart[p][i].id

\* a flush has returned after the transport rejected one of its messages
C4_Witness ==
    \E p \in Flushers :
        /\ pc[p] = "flush_ret"
        /\ messageCache = <<>>
        /\ \E i \in 1..Len(SentSince(p)) : ~SentSince(p)[i].ok

\* C5 (as claimed): no cached message is handed to the transport twice.
C5_AtMostOnce ==
    \A i, j \in 1..Len(transportLog) :
        (i # j /\ transportLog[i].data # Garbage.id)
            => transportLog[i].data # transportLog[j].data

\* ------------------------------------------------------------------------
\* Properties of the queues
\* ------------------------------------------------------------------------
\* C6: on every queue the items received so far are a prefix of the items
\* whose sends succeeded, in the order in which they succeeded.
C6_FifoPrefix ==
    \A ch \in Chans :
        /\ Len(deq[ch]) <= Len(enq[ch])
        /\ \A i \in 1..Len(deq[ch]) : deq[ch][i] = enq[ch][i]

\* two items were received from a queue that two producers had filled in an
\* order other than the one in which they were offered
C6_Witness ==
    \E ch \in Chans :
        \E i, j \in 1..Len(deq[ch]) : i < j /\ deq[ch][i] > deq[ch][j]

\* C7: when the network task sends to the full ui-update queue with a zero
\* timeout, the send is rejected (errQUEUE_FULL) and the queue keeps exactly
\* the items it held, in their order.
C7_DropNewest ==
    [][(/\ qpc["net"] = "sending"
        /\ cur["net"].site = "net_ui_update"
        /\ Len(queue["ui_update"]) = QueueCap
        /\ cur'["net"] # cur["net"])
         => /\ queue'["ui_update"] = queue["ui_update"]
            /\ enq'["ui_update"] = enq["ui_update"]
            /\ cur'["net"].ret = "errQUEUE_FULL"
            /\ qpc'["net"] = "ret"]_vars

\* the network task's update was rejected by the full ui-update queue
C7_Witness ==
    /\ qpc["net"] = "ret"
    /\ cur["net"].ret = "errQUEUE_FULL"
    /\ Len(queue["ui_update"]) = QueueCap

\* the send timeout configured for the queue of each helper, in ms
ConfiguredTimeout(site) ==
    CASE site = "send_ui_update"        -> 200
      [] site = "send_outgoing_message" -> 200
      [] site = "send_audio_command"    -> 10
      [] site = "send_incoming_message" -> 200

SendBudget(site) ==
    CASE site = "send_ui_update"        -> 200
      [] site = "send_outgoing_message" -> 300
      [] site = "send_audio_command"    -> 110
      [] site = "send_incoming_message" -> 200

C9_UiBlocksAtMost10ms ==
    cur["ui"].blocked <= 10

\* ------------------------------------------------------------------------
\* Properties of retry_with_backoff
\* ------------------------------------------------------------------------
\* C10: retry_with_backoff invokes the operation at most max_attempts times
\* and never again after an invocation returned true; it returns true exactly
\* when the last invocation returned true; and, given an operation and a
\* configuration, it returns false only after exactly max_attempts
\* invocations that all returned false.
C10_RetryContract ==
    /\ Len(results) <= max_attempts
    /\ \A i \in 1..(Len(results) - 1) : results[i] = FALSE
    /\ r_pc = "done" =>
         /\ r_ret = TRUE <=> (results # <<>> /\ results[Len(results)] = TRUE)
         /\ (r_ret = FALSE /\ func # "NULL" /\ config # "NULL") =>
              /\ Len(results) = max_attempts
              /\ \A i \in 1..Len(results) : results[i] = FALSE

\* a call has returned false after all of its two or more attempts failed
C10_Witness ==
    /\ r_pc = "done"
    /\ r_ret = FALSE
    /\ func # "NULL" /\ config # "NULL"
    /\ max_attempts >= 2
    /\ Len(results) = max_attempts

\* C11: a call of retry_with_backoff that used up max_attempts without a
\* success has reported a System/Timeout error: total_errors went from 0 to 1
\* and last_error_code is ERROR_TIMEOUT, whatever error_context the caller
\* passed (stated for an initialized error system).
C11_TimeoutAlwaysReported ==
    (r_pc = "done" /\ func # "NULL" /\ config # "NULL" /\ max_attempts > 0
       /\ attempt = max_attempts /\ r_ret = FALSE /\ g_initialized)
      => (total_errors = 1 /\ last_error_code = ERROR_TIMEOUT)

RECURSIVE Pow(_, _)
Pow(b, e) == IF e = 0 THEN 1 ELSE b * Pow(b, e - 1)

\* d = min(base * (num/den)^att, max), compared without division
IsCappedPower(d, att, p) ==
    IF p.base * Pow(p.num, att) >= p.max * Pow(p.den, att)
    THEN d = p.max
    ELSE d * Pow(p.den, att) = p.base * Pow(p.num, att)

\* C12: with jitter disabled, the delay computed for an attempt equals
\* min(base_delay * multiplier^attempt, max_delay), for every policy.
C12_DelayIsCappedPower ==
    (~jitter_enabled /\ b_attempt >= 0)
      => IsCappedPower(b_delay, b_attempt, b_policy)

\* C13: for base_delay=100, multiplier=2, max_delay=5000 the delay of each
\* attempt is at least the delay of the attempt before it and at most 5000,
\* with jitter disabled and with every jitter that can be drawn.
C13_DefaultPolicyMonotone ==
    [][(b_policy = RETRY_CONFIG_DEFAULT /\ b_attempt' = b_attempt + 1)
         => (b_delay' >= b_delay /\ b_delay' <= b_policy.max)]_vars

\* attempt 5 of the default policy with jitter enabled and a non-zero jitter
C13_Witness ==
    /\ b_policy = RETRY_CONFIG_DEFAULT
    /\ jitter_enabled
    /\ b_attempt = 5
    /\ b_delay > BackoffLoop(b_policy.base, 0, b_attempt, b_policy)

\* C14: whenever no error_report call is in progress, total_errors equals the
\* number of error_report calls made since the last reset, and the context
\* returned last carries the category and code it was called with.
C14_EveryReportCounted ==
    (\A t \in ErrTasks : e_pc[t] \in {"idle", "reset"})
      => total_errors = reportCalls

\* C16: error_is_in_error_state() returns true exactly when more than 10
\* errors are counted and the most recent error was reported less than
\* 5 seconds before the query.
C16_ErrorStateWindow ==
    e_query.asked => (e_query.result <=> e_query.expected)

\* C15: error_recover returns false exactly for Hardware errors and for
\* System errors with code MemoryAllocation, whose strategy is Reset; it
\* returns true for Network, Storage and System/Timeout errors, whose
\* strategy is Backoff, and for every other category and code, whose
\* strategy is Retry.
C15_RecoverByCategory ==
    (rec_last.called /\ rec_last.strategy # "NULL")
      => LET reset == \/ rec_last.category = ERROR_CATEGORY_HARDWARE
                      \/ /\ rec_last.category = ERROR_CATEGORY_SYSTEM
                         /\ rec_last.code = ERROR_MEMORY_ALLOCATION
             backoff == \/ rec_last.category \in {ERROR_CATEGORY_NETWORK,
                                                  ERROR_CATEGORY_STORAGE}
                        \/ /\ rec_last.category = ERROR_CATEGORY_SYSTEM
                           /\ rec_last.code = ERROR_TIMEOUT
         IN  /\ rec_last.ret = (~reset)
             /\ reset <=> rec_last.strategy = "RECOVERY_RESET"
             /\ backoff <=> rec_last.strategy = "RECOVERY_BACKOFF"
             /\ (~reset /\ ~backoff) <=> rec_last.strategy = "RECOVERY_RETRY"

\* error_recover has returned false for a hardware error
C15_Witness ==
    /\ rec_last.called
    /\ rec_last.category = ERROR_CATEGORY_HARDWARE
    /\ rec_last.code = ERROR_HARDWARE_FAULT
    /\ rec_last.ret = FALSE
    /\ failed_recoveries = 1

\* C17: an outgoing message that the network task dequeued while the mesh
\* manager was Disconnected, and whose send failed, is in the message cache
\* waiting for the reconnect.
C17_DivertedToCache ==
    (n_last.done /\ n_last.down /\ ~n_last.ret)
      => \E i \in DOMAIN messageCache : messageCache[i].id = n_last.item

\* the elements of a sequence
Range(s) == {s[i] : i \in DOMAIN s}

\* C18: send_tcp_message makes at most max_retries + 1 attempts; when it
\* returns false for valid arguments it has made exactly that many, and the
\* message is neither on the outgoing-message queue nor in the cache.
C18_BoundedThenDropped ==
    /\ tcp.tries <= tcp.max_retries + 1
    /\ (tcp.ret = "false" /\ tcp.max_retries >= 0 /\ tcp.tries > 0)
         => tcp.tries = tcp.max_retries + 1
    /\ (tcp.ret = "false" /\ tcp.caller = "net")
         => /\ tcp.item \notin Range(queue["outgoing_message"])
            /\ \A i \in DOMAIN messageCache : messageCache[i].id # tcp.item

\* the network task's send of a dequeued message failed on all four
\* attempts and returned false
C18_Witness ==
    /\ tcp.caller = "net"
    /\ tcp.ret = "false"
    /\ tcp.tries = send_tcp_message_default_retries + 1
    /\ n_pc = "loop"
    /\ n_last.done

\* C19: a call of handle_incoming_packet whose decoding fails leaves the
\* contact list, the peer link stats, the group key and every queue as
\* they were.
C19_DecodeFailureChangesNothing ==
    [][(in_discarded' = in_discarded + 1 /\ in_last'.outcome = "unpack_failed")
         => UNCHANGED <<g_contact_list, g_peer_link_stats, groupKey, queue>>]_vars

\* a malformed buffer was handled while there were a contact, a group key
\* and a queued outgoing message
C19_Witness ==
    /\ in_last.outcome = "unpack_failed"
    /\ in_discarded > 0
    /\ g_contact_list # <<>>
    /\ groupKey = default_key
    /\ queue["outgoing_message"] # <<>>

\* C20: with the error system initialized, every inbound packet that is
\* discarded for a decode or decrypt failure increases total_errors by one.
C20_DiscardsReported ==
    [][(in_discarded' = in_discarded + 1 /\ g_initialized)
         => total_errors' = total_errors + 1]_vars

\* C21: an inbound EncryptedPacket is passed to decrypt; when decrypt
\* succeeds the plaintext is dispatched as an inner packet through the
\* handler, when it fails the packet is discarded and the shared data stay
\* as they were.
C21_EnvelopeDecryptedAndDispatched ==
    [][(in_last' # in_last /\ in_last'.kind = "encrypted")
         => \/ in_last'.outcome = "decrypted" /\ in_last'.inner # "none"
            \/ /\ in_last'.outcome = "decrypt_failed"
               /\ UNCHANGED <<g_contact_list, g_peer_link_stats, groupKey,
                              queue>>]_vars

\* C22: for every payload produced by encrypt_message and every change of a
\* single byte of it, decrypt_message fails and returns no plaintext.
C22_CorruptedEnvelopeRejected ==
    (dec.called /\ rx_pos # 0) => dec.text = <<>>

C24_SentinelLeavesGpsLock ==
    [][/\ (ui_updates # <<>> /\ ui_updates' = Tail(ui_updates)
            /\ Head(ui_updates).origin = "networkTask")
          => gps_lock_status' = gps_lock_status
       /\ gps_lock_status' # gps_lock_status
          => (ui_updates # <<>> /\ Head(ui_updates).origin = "gps_task")]_vars

\* C26: when handle_incoming_packet has handled a HealthCheckResponse, the
\* PeerLinkStats entry of the node that sent it has last_update_time equal
\* to the time of receipt and last_latency_ms equal to the round-trip time
\* (time of receipt minus the echoed sent_timestamp_ms).
C26_HealthResponseUpdatesStats ==
    [][(in_last' # in_last /\ in_last'.kind = "health_response")
         => \E i \in DOMAIN g_peer_link_stats' :
              /\ g_peer_link_stats'[i].node_id = in_last'.from
              /\ g_peer_link_stats'[i].last_update_time = in_last'.at
              /\ g_peer_link_stats'[i].last_latency_ms
                   = in_last'.at - in_last'.sent]_vars

\* C28: once SecurityManager::begin() has run the group key is exactly 32
\* bytes long at all times, and a call of setGroupKey with a key of any
\* other length is refused and leaves the group key as it was.
C28_GroupKeyIs32Bytes ==
    [][/\ sec_isInitialized' => Len(groupKey') = 32
       /\ (sec_last' # sec_last /\ Len(sec_last'.new_key) # 32)
            => groupKey' = groupKey]_vars

\* C28 witness: after begin() a key of 32 bytes was installed and a later
\* call with a key of 33 bytes left it in place.
C28_Witness ==
    /\ sec_isInitialized
    /\ sec_last.called /\ Len(sec_last.new_key) = 33
    /\ groupKey = Fill(32, 2)

\* C25: when the loop of a health cycle is through, every contact of the
\* contact list has exactly one HealthCheckRequest of this cycle, addressed
\* to its node_id, and that request was put on the outgoing-message queue,
\* from which the network task takes it: no contact is skipped.
C25_EveryContactGetsRequest ==
    [][(h_pc = "loop" /\ h_pc' = "prune")
         => \A i \in DOMAIN g_contact_list :
              \E j \in DOMAIN h_log :
                /\ h_log[j].contact = i
                /\ h_log[j].to_node = g_contact_list[i].node_id
                /\ h_log[j].ret = "pdPASS"
                /\ \E k \in DOMAIN enq["outgoing_message"] :
                     enq["outgoing_message"][k] = h_log[j].item
                /\ \A l \in DOMAIN h_log :
                     h_log[l].contact = i => l = j]_vars

\* C27: when the pruning step of a health cycle is over, no contact is left
\* in the list that has been through more than StaleCycles cycles without a
\* HealthCheckResponse (no response arrives in these runs, and the link
\* statistics have no entries at all).
C27_StaleEntriesRemoved ==
    [][(h_pc = "prune" /\ h_pc' = "delay")
         => /\ contact_age' > StaleCycles => g_contact_list' = <<>>
            /\ g_peer_link_stats' = <<>>]_vars

\* C29: a task that holds the contact-list mutex is never inside, or about
\* to make, a queue send with a block time other than zero. (The mutex of
\* the link statistics is created and never taken.)
C29_NoBlockingSendUnderLock ==
    \A task \in LockTasks :
      g_contact_list_mutex = task => ~BlockingSend(task)

\* C30: every task waiting for the contact-list mutex waits with a finite
\* block time; and an iteration of the network task that did not get the
\* mutex leaves the contact list as it is and goes on with its next step,
\* the UI update, just as a UI key press that did not get it leaves the list
\* as it is and the UI task in its loop.
C30_LockTimeoutSkipsOperation ==
    [][/\ h_pc' = "take"
            => TakeTimeout("network_health_task", "cycle") # portMAX_DELAY
       /\ n_step' = "contacts"
            => TakeTimeout("networkTask", "contacts") # portMAX_DELAY
       /\ u_pc' = "idle"
            => \A op \in UiOps : TakeTimeout("uiTask", op) # portMAX_DELAY
       /\ (n_step = "contacts" /\ n_step' # n_step /\ ~n_taken')
            => g_contact_list' = g_contact_list /\ n_step' = "publish"
       /\ (u_last' # u_last /\ ~u_last'.taken)
            => g_contact_list' = g_contact_list /\ u_pc' = "idle"]_vars

\* C31: a task that is at a read or a write of g_contact_list holds
\* g_contact_list_mutex, so no two of the network, health and UI tasks are
\* inside an access to the contact list at the same time.
C31_ContactListUnderMutex ==
    /\ \A task \in LockTasks : Accessing(task) => g_contact_list_mutex = task
    /\ \A t1, t2 \in LockTasks :
         Accessing(t1) /\ Accessing(t2) => t1 = t2

\* C31 witness: the network task is rewriting the list while the health
\* task waits for the mutex and a key press of the UI task has just timed
\* out.
C31_Witness ==
    /\ Accessing("networkTask")
    /\ h_pc = "take"
    /\ u_last.op = "select" /\ ~u_last.taken

\* ------------------------------------------------------------------------
\* Properties of the task contexts
\* ------------------------------------------------------------------------
\* the task or callback each caller of sendCachedMessages runs in
FlushContext(p) ==
    CASE p = "ui"  -> "uiTask"
      [] p = "sdk" -> "connection callback"

\* the contexts that are inside sendCachedMessages: testing, iterating over
\* or about to clear messageCache
CacheUsers ==
    {FlushContext(p) : p \in {q \in Flushers : pc[q] \in {"flush_begin", "flush_loop"}}}

\* C32 (as claimed): the cached-message list is read and modified only by the
\* network task; no other task or callback iterates over it or clears it.
C32_OnlyNetworkTaskUsesCache ==
    CacheUsers \subseteq {"networkTask"}

\* C33 (as claimed): once the owner of a callback has been destroyed or its
\* handle has been invalidated, execute() does not call the wrapped function:
\* every call found the handle valid and the owner alive.
C33_NoCallAfterInvalidation ==
    \A i \in 1..Len(invocations) :
        invocations[i].valid /\ invocations[i].owner

\* C34 (as claimed): a message accepted into the cache leaves the cache only
\* if a transport send call has been made for it, also when the flush runs
\* while the manager is, or becomes, Disconnected: in every step, each cached
\* message that is gone from the cache has a call with its payload in the
\* transport log.
C34_RemovedOnlyAfterTransportCall ==
    [][\A i \in 1..Len(messageCache) :
          (/\ messageCache[i].id # Garbage.id
           /\ \A k \in 1..Len(messageCache') : messageCache'[k] # messageCache[i])
          => \E j \in 1..Len(transportLog') :
                 transportLog'[j].data = messageCache[i].id]_vars

\* C35 (as claimed): whenever the manager's flag says Connected the SDK
\* transport is connected too, and no call handed to the transport in the
\* Connected state is rejected, after any sequence of SDK connect/disconnect
\* events and UI toggles.
C35_FlagImpliesTransportConnected ==
    /\ isConnected => m_connected
    /\ \A j \in 1..Len(transportLog) : transportLog[j].ok

RECURSIVE SumBelow(_, _)
SumBelow(counts, n) ==
    IF n = 0 THEN 0 ELSE counts[n - 1] + SumBelow(counts, n - 1)

\* C37 (as claimed): after any sequence of error_report and error_reset_stats
\* calls, total_errors equals the sum of errors_by_category over all
\* categories.
C37_TotalIsSumOfCategories ==
    total_errors = SumBelow(errors_by_category, ERROR_CATEGORY_MAX)

\* C38 (as claimed): for every retry policy and every attempt the delay
\* calculate_backoff_delay returns is at most max_delay, with jitter disabled
\* and with every jitter that can be drawn.
C38_DelayAtMostMax ==
    b_attempt >= 0 => b_delay <= b_policy.max

\* ------------------------------------------------------------------------
\* Properties of validate_ip_address
\* ------------------------------------------------------------------------
\* the positions of the dots of a string
DotsOf(ip) == {i \in 1..Len(ip) : ip[i] = "."}

\* the run of characters between two dots (or an end of the string)
RunAfter(ip, i) ==
    LET next == {j \in DotsOf(ip) : j > i}
        stop == IF next = {} THEN Len(ip) + 1
                ELSE CHOOSE j \in next : \A k \in next : j <= k
    IN  SubSeq(ip, i + 1, stop - 1)

\* a non-empty run of digits whose value, read as a decimal number of any
\* length, is in 0..255
RECURSIVE StripZeros(_)
StripZeros(run) ==
    IF run # <<>> /\ Head(run) = "0" THEN StripZeros(Tail(run)) ELSE run

IsOctet(run) ==
    /\ run # <<>>
    /\ \A k \in 1..Len(run) : IsDigit(run[k])
    /\ LET t == StripZeros(run)
       IN  /\ Len(t) <= 3
           /\ (IF t = <<>> THEN 0
               ELSE IF Len(t) = 1 THEN DigitValue(t[1])
               ELSE IF Len(t) = 2 THEN DigitValue(t[1]) * 10 + DigitValue(t[2])
               ELSE DigitValue(t[1]) * 100 + DigitValue(t[2]) * 10
                    + DigitValue(t[3])) <= 255

\* four octets separated by three dots
IsDottedQuad(ip) ==
    /\ Cardinality(DotsOf(ip)) = 3
    /\ \A i \in DotsOf(ip) \cup {0} : IsOctet(RunAfter(ip, i))

\* C39 (as claimed): validate_ip_address returns true only for strings of
\* exactly four non-empty decimal numbers separated by three dots, each with
\* a value in 0..255, the accumulator being a 32-bit int.
C39_TrueOnlyForDottedQuads ==
    ip_ret = "true" => IsDottedQuad(ip_arg)

\* ------------------------------------------------------------------------
\* Properties of the sockets of send_tcp_message
\* ------------------------------------------------------------------------
\* C40 (as claimed): the socket an iteration of the retry loop opens is
\* closed exactly once, whether the connect failed, a send failed or the
\* payload was sent.
C40_SocketClosedExactlyOnce ==
    tcp.opened => tcp.closes = 1

====
